---- MODULE Spec2Model ----
(***************************************************************************)
(* Verification model of the choirOS supervisor: the run orchestrator      *)
(* (supervisor/run_orchestrator.py) over the event store                   *)
(* (supervisor/db.py), the git operations (supervisor/git_ops.py), the     *)
(* local sandbox runner (supervisor/sandbox_runner.py), the run endpoints  *)
(* of the control surface (supervisor/main.py), the mood engine            *)
(* (supervisor/mood_engine.py) and the verifier planner                    *)
(* (supervisor/verifier_plan.py).                                          *)
(*                                                                         *)
(* Python's None is modelled by 0 for ids and SHAs and by "" for strings.  *)
(***************************************************************************)
EXTENDS Integers, Sequences, FiniteSets, TLC

\* ------------------------------------------------------------------ bounds
NumSessions == 2      \* concurrent callers of the orchestrator
MaxRuns == 2          \* runs created in one behaviour
MaxWrites == 1        \* write_file calls the executor makes in one run
MaxPatches == 1       \* PATCH /run/{id} requests in one behaviour
MaxEvents == 3        \* events appended to the store in one behaviour of the store
MaxListLen == 2       \* length of the lists handed to select_verifier_plan
MaxClock == 2         \* readings of the wall clock a verifier run may see
MaxSandboxes == 2     \* sandboxes created on one runner
MaxCheckpoints == 2   \* checkpoint calls made on one runner
MaxDestroys == 2      \* destroy calls made on one handle

Sessions == 1..NumSessions

\* ------------------------------------------------------- inputs of the model
\* A path is the sequence of its components; "src/a.txt" is <<"src", "a.txt">>.
Paths == {<<"src", "a.txt">>, <<"docs", "b.md">>}

\* Paths tracked by the initial commit of the repository, when there is one.
InitialTracked == {<<"src", "a.txt">>}

\* The verifier catalog of the configuration file (config/verifiers.yaml is
\* data, not code): V1 is scoped to src/ under mood CALM, V2 has no scope and
\* is only ever run when a caller of run() passes it.
Catalog ==
    { [id |-> "V1", moods |-> {"CALM"}, scopes |-> {<<"src">>}],
      [id |-> "V2", moods |-> {}, scopes |-> {}] }

MoodDefaults == [m \in {"CALM"} |-> {}]

VerifierIds == {v.id : v \in Catalog}

\* The verifier list a caller hands to run(); run_async plans its own, which
\* may be empty.
SpecLists == {<<"V1", "V2">>}

TerminalStatuses == {"verified", "failed"}
RunStatuses == {"created", "running", "verifying", "verified", "failed"}

VARIABLES
    events,            \* the events table: seq is the index
    runs,              \* the runs table: run id is the index
    workItems,         \* the work_items table: work item id is the index
    runNotes,          \* the run_notes table
    runVerifications,  \* the run_verifications table
    commitRequests,    \* the run_commit_requests table
    syncState,         \* the sync_state table: last_good_checkpoint, sandbox_checkpoint
    commits,           \* the repository's commits: the SHA is the index
    head,              \* HEAD (0: no commit)
    dirty,             \* changed, non-ignored paths of the working tree
    backups,           \* the commits the backup-before-revert branches point at
    sandboxDirs,       \* LocalSandboxRunner: sandbox id -> ids in its checkpoints.json
    sandboxesCreated,  \* the sandbox ids handed out so far
    checkpointsMade,   \* the sandbox checkpoint ids handed out so far
    keepFlag,          \* CHOIR_SANDBOX_KEEP == "1"
    pc,                \* where each session's call of run / run_async stands
    cur,               \* the run each session drives
    ctx,               \* per orchestrated run: the locals of run / run_async and
                       \* the calls it made on its collaborators
    seqBase,           \* rows deleted from events so far: AUTOINCREMENT never
                       \* hands a seq out twice, so events[i] has seq seqBase + i
    files,             \* the files table: path -> content_hash
    conversations,     \* the conversations table: id -> last_seq (0: NULL)
    messages,          \* the messages table
    toolCalls,         \* the tool_calls table
    ahdbState,         \* the ahdb_state table: key -> value
    ahdbDeltas,        \* the ahdb_deltas table
    patches,           \* PATCH /run/{id} requests served so far
    moodCall,          \* one call of the mood engine: arguments and results
    planCall,          \* one call of select_verifier_plan: arguments and result
    verifierCall,      \* VerifierRunner.run_async called twice on one spec
    sandboxOp,         \* the last call made on the sandbox runner and how it ended
    wsState,           \* one WebSocket session of /agent: its loop and its frames
    agentLoop,         \* one prompt in the agent loop: turns taken and outcome
    editCall,          \* the workspace file edit_file works on, and its calls
    normCall,          \* a call of normalize_event_type and what it returned
    logCall,           \* an events table of its own: appends, publishes and queries
    gitCall            \* a repository of its own and the last git_revert made on it

vars == << events, runs, workItems, runNotes, runVerifications, commitRequests,
           syncState, commits, head, dirty, backups, sandboxDirs, sandboxesCreated,
           checkpointsMade, keepFlag, pc, cur, ctx, seqBase, files, conversations,
           messages, toolCalls, ahdbState, ahdbDeltas, patches, moodCall, planCall,
           verifierCall, sandboxOp, wsState, agentLoop, editCall, normCall, logCall, gitCall >>

\* The parts modelled on their own, away from the orchestrator.
componentVars == << verifierCall, sandboxOp, wsState, agentLoop, editCall, normCall, logCall, gitCall >>

\* The projection tables no step of the orchestrator writes.
projVars == << conversations, messages, toolCalls, ahdbState, ahdbDeltas >>

\* What the orchestrator and the run endpoints leave alone.
otherVars == << seqBase, patches, moodCall, planCall, componentVars >>

storeVars == << events, runs, workItems, runNotes, runVerifications, commitRequests,
                syncState, files, projVars >>
gitVars == << commits, head, dirty, backups >>
sandboxVars == << sandboxDirs, sandboxesCreated, checkpointsMade >>

\* ------------------------------------------------------------ event store

\* The absent delta of an event that is no receipt.ahdb.delta, and the empty one.
NoDelta == [k \in {} |-> 0]

\* EventStore.get_latest_seq: MAX(seq), or 0 for an empty table.
GetLatestSeq(evs) == IF evs = <<>> THEN 0 ELSE seqBase + Len(evs)

\* The body of a note, reduced to the keys the orchestrator's notes are told
\* apart by: status, stage, event and the success flag of a recorded result.
Body(status, stage, event, ok) ==
    [status |-> status, stage |-> stage, event |-> event, ok |-> ok]

NoBody == Body("", "", "", TRUE)

\* One write of a store helper: which helper, the event type, and the payload:
\* run_id and body (notes, attestations, commit requests), path and
\* content_hash (file events), conversation_id and text (messages, tool
\* calls), delta (receipt.ahdb.delta). `origin` is the run whose executor made
\* the write (0: none); it is not part of the payload and no operation of the
\* store reads it.
Write(helper, type, run, body) ==
    [helper |-> helper, type |-> type, run |-> run, body |-> body, path |-> <<>>,
     origin |-> 0, conv |-> 0, text |-> "", hash |-> 0, delta |-> NoDelta]

FileWrite(path, origin) ==
    [helper |-> "log_file_write", type |-> "file.write", run |-> 0, body |-> NoBody,
     path |-> path, origin |-> origin, conv |-> 0, text |-> "", hash |-> 1,
     delta |-> NoDelta]

Note(type, run, body) == Write("add_run_note", type, run, body)

StatusNote(run, status, stage) ==
    Note("note.status", run, Body(status, stage, "", TRUE))

Observation(run, event, ok) ==
    Note("note.observation", run, Body("", "", event, ok))

\* EventStore.append: the event gets the next seq. `via` is the helper that
\* appended it ("append": a bare append); like origin it is no part of the row.
EventOf(w) ==
    [type |-> w.type, run |-> w.run, body |-> w.body, path |-> w.path,
     origin |-> w.origin, via |-> w.helper, conv |-> w.conv, text |-> w.text,
     hash |-> w.hash, delta |-> w.delta]

AppendAll(evs, ws) == evs \o [i \in 1..Len(ws) |-> EventOf(ws[i])]

\* The projection tables, as one record.
NoTables ==
    [files |-> << >>, conversations |-> << >>, messages |-> {}, tool_calls |-> {},
     ahdb_state |-> NoDelta, ahdb_deltas |-> {}, run_notes |-> {},
     run_verifications |-> {}, run_commit_requests |-> {}]

Tables ==
    [files |-> files, conversations |-> conversations, messages |-> messages,
     tool_calls |-> toolCalls, ahdb_state |-> ahdbState, ahdb_deltas |-> ahdbDeltas,
     run_notes |-> runNotes, run_verifications |-> runVerifications,
     run_commit_requests |-> commitRequests]

\* INSERT OR REPLACE by primary key, and DELETE by primary key.
Upsert(f, k, v) == [x \in DOMAIN f \cup {k} |-> IF x = k THEN v ELSE f[x]]
Remove(f, k) == [x \in DOMAIN f \ {k} |-> f[x]]

\* A row of run_notes, run_verifications or run_commit_requests.
Row(e, seq) == [run |-> e.run, type |-> e.type, body |-> e.body, event_seq |-> seq]

MessageRow(e, seq) == [conversation_id |-> e.conv, event_seq |-> seq, content |-> e.text]

ToolCallRow(e, seq) == [event_seq |-> seq, conversation_id |-> e.conv, tool_name |-> e.text]

\* ahdb_state written with INSERT OR IGNORE: the first value of a key stays.
ApplyAhdbDeltaFirstWins(db, delta, seq) ==
    [db EXCEPT !.ahdb_deltas = @ \cup {[event_seq |-> seq, delta |-> delta]},
               !.ahdb_state = [k \in DOMAIN @ \cup DOMAIN delta |->
                                  IF k \in DOMAIN @ THEN @[k] ELSE delta[k]]]

\* EventStore._apply_ahdb_delta: the delta is recorded, and each of its keys
\* replaces the key's row of ahdb_state.
ApplyAhdbDelta(db, delta, seq) ==
    [db EXCEPT !.ahdb_deltas = @ \cup {[event_seq |-> seq, delta |-> delta]},
               !.ahdb_state = [k \in DOMAIN @ \cup DOMAIN delta |->
                                  IF k \in DOMAIN delta THEN delta[k] ELSE @[k]]]

\* UPDATE conversations SET last_seq = ? WHERE id = ?
SetLastSeq(convs, id, seq) ==
    IF id \in DOMAIN convs THEN [convs EXCEPT ![id] = seq] ELSE convs

\* EventStore._ensure_conversation
EnsureConversation(convs, id) ==
    IF id \in DOMAIN convs THEN convs ELSE Upsert(convs, id, 0)

\* What each write helper does to the tables after its append: add_message,
\* log_tool_call, log_file_write, log_file_delete, log_ahdb_delta,
\* add_run_note, add_run_verification, add_commit_request. A bare append
\* touches no table.
HelperInsert(db, w, seq) ==
    CASE w.helper = "add_message" ->
             [db EXCEPT !.messages = @ \cup {MessageRow(w, seq)},
                        !.conversations = SetLastSeq(@, w.conv, seq)]
      [] w.helper = "log_tool_call" ->
             [db EXCEPT !.tool_calls = @ \cup {ToolCallRow(w, seq)}]
      [] w.helper = "log_file_write" ->
             [db EXCEPT !.files = Upsert(@, w.path, w.hash)]
      [] w.helper = "log_file_delete" ->
             [db EXCEPT !.files = Remove(@, w.path)]
      [] w.helper = "log_ahdb_delta" -> ApplyAhdbDelta(db, w.delta, seq)
      [] w.helper = "add_run_note" ->
             [db EXCEPT !.run_notes = @ \cup {Row(w, seq)}]
      [] w.helper = "add_run_verification" ->
             [db EXCEPT !.run_verifications = @ \cup {Row(w, seq)}]
      [] w.helper = "add_commit_request" ->
             [db EXCEPT !.run_commit_requests = @ \cup {Row(w, seq)}]
      [] OTHER -> db

\* The helpers' writes ws made in turn, the first one getting seq last + 1.
RECURSIVE InsertAll(_, _, _)
InsertAll(db, ws, last) ==
    IF ws = <<>> THEN db
    ELSE InsertAll(HelperInsert(db, Head(ws), last + 1), Tail(ws), last + 1)

NoteTypes == {"note.status", "note.observation", "note.hyperthesis", "note.request.verify"}

\* EventStore._materialize_projection: one event into the tables, by its type.
MaterializeProjection(db, e, seq) ==
    CASE e.type = "file.write" -> [db EXCEPT !.files = Upsert(@, e.path, e.hash)]
      [] e.type = "file.delete" -> [db EXCEPT !.files = Remove(@, e.path)]
      [] e.type = "message" ->
             [db EXCEPT !.messages = @ \cup {MessageRow(e, seq)},
                        !.conversations =
                            IF e.conv # 0
                            THEN SetLastSeq(EnsureConversation(@, e.conv), e.conv, seq)
                            ELSE @]
      [] e.type = "tool.call" ->
             [db EXCEPT !.tool_calls = @ \cup {ToolCallRow(e, seq)},
                        !.conversations =
                            IF e.conv # 0 THEN EnsureConversation(@, e.conv) ELSE @]
      [] e.type = "receipt.ahdb.delta" -> ApplyAhdbDelta(db, e.delta, seq)
      [] e.type \in NoteTypes ->
             IF e.run = 0 THEN db
             ELSE [db EXCEPT !.run_notes = @ \cup {Row(e, seq)},
                             !.run_commit_requests =
                                 IF e.type = "note.request.verify"
                                 THEN @ \cup {Row(e, seq)} ELSE @]
      [] e.type = "receipt.verifier.attestations" ->
             IF e.run = 0 THEN db
             ELSE [db EXCEPT !.run_verifications = @ \cup {Row(e, seq)}]
      [] OTHER -> db

\* The replay loop of rebuild_projection_from_events: every row of events, in
\* seq order, through _materialize_projection.
RECURSIVE Replay(_, _, _)
Replay(db, evs, base) ==
    IF evs = <<>> THEN db
    ELSE Replay(MaterializeProjection(db, Head(evs), base + 1), Tail(evs), base + 1)

\* EventStore.rebuild_projection_from_events: the tables after it.
RebuildProjectionFromEvents(evs, base) == Replay(NoTables, evs, base)

\* EventStore.get_event_paths_since
FileEventTypes == {"file.write", "file.delete", "file.move"}

GetEventPathsSince(evs, since_seq) ==
    {evs[i].path : i \in {j \in 1..Len(evs) :
                        seqBase + j > since_seq /\ evs[j].type \in FileEventTypes}}

\* EventStore.update_run, for the status and mood keys.
UpdateRun(rs, run_id, status, mood) ==
    [rs EXCEPT ![run_id].status = status, ![run_id].mood = mood]

\* sync_state accessors (get_last_good_checkpoint / set_last_good_checkpoint,
\* get_sync_state / set_sync_state).
GetLastGoodCheckpoint(ss) == ss.last_good_checkpoint
SetLastGoodCheckpoint(ss, sha) == [ss EXCEPT !.last_good_checkpoint = sha]
GetLastSandboxCheckpoint(ss) == ss.sandbox_checkpoint
SetLastSandboxCheckpoint(ss, id) ==
    IF id # 0 THEN [ss EXCEPT !.sandbox_checkpoint = id] ELSE ss

\* ---------------------------------------------------------- git operations

\* git merge-base --is-ancestor a h
RECURSIVE IsAncestor(_, _, _)
IsAncestor(cs, a, h) ==
    IF h = 0 THEN FALSE
    ELSE IF a = h THEN TRUE
    ELSE IsAncestor(cs, a, cs[h].parent)

\* git_ops.is_reachable_commit
IsReachableCommit(cs, sha, hd) ==
    /\ sha \in 1..Len(cs)
    /\ IsAncestor(cs, sha, hd)

\* The paths tracked in commit sha.
RECURSIVE TrackedAt(_, _)
TrackedAt(cs, sha) ==
    IF sha = 0 THEN {} ELSE cs[sha].paths \cup TrackedAt(cs, cs[sha].parent)

CheckpointOutcomes == {"ok", "commit_failed"}

\* git_ops.checkpoint: nothing to commit returns HEAD; otherwise stage the
\* filtered paths and commit. `outcome` is what git add / git commit do.
Checkpoint(cs, hd, dt, outcome) ==
    IF dt = {} THEN
        [success |-> TRUE, commit_sha |-> hd, created |-> FALSE,
         commits |-> cs, head |-> hd, dirty |-> dt]
    ELSE IF outcome = "ok" THEN
        [success |-> TRUE, commit_sha |-> Len(cs) + 1, created |-> TRUE,
         commits |-> Append(cs, [parent |-> hd, paths |-> dt]),
         head |-> Len(cs) + 1, dirty |-> {}]
    ELSE
        [success |-> FALSE, commit_sha |-> 0, created |-> FALSE,
         commits |-> cs, head |-> hd, dirty |-> dt]

RevertOutcomes == {"ok", "backup_failed"}

\* git reset --hard without a backup branch made first.
GitRevertWithoutBackup(cs, hd, dt, bk, sha, dry_run, outcome) ==
    IF ~IsReachableCommit(cs, sha, hd) THEN
        [success |-> FALSE, head |-> hd, dirty |-> dt, backups |-> bk]
    ELSE IF dry_run THEN
        [success |-> TRUE, head |-> hd, dirty |-> dt, backups |-> bk]
    ELSE
        [success |-> TRUE, head |-> sha, dirty |-> dt \ TrackedAt(cs, hd), backups |-> bk]

\* git_ops.git_revert: the sha must be reachable from HEAD; a backup branch is
\* made at HEAD; a dry run stops there; otherwise git reset --hard sha, which
\* restores every tracked path and leaves untracked ones alone.
GitRevert(cs, hd, dt, bk, sha, dry_run, outcome) ==
    IF ~IsReachableCommit(cs, sha, hd) THEN
        [success |-> FALSE, head |-> hd, dirty |-> dt, backups |-> bk]
    ELSE IF outcome = "backup_failed" THEN
        [success |-> FALSE, head |-> hd, dirty |-> dt, backups |-> bk]
    ELSE IF dry_run THEN
        [success |-> TRUE, head |-> hd, dirty |-> dt, backups |-> bk \cup {hd}]
    ELSE IF outcome = "reset_failed" THEN
        [success |-> FALSE, head |-> hd, dirty |-> dt, backups |-> bk \cup {hd}]
    ELSE
        [success |-> TRUE, head |-> sha, dirty |-> dt \ TrackedAt(cs, hd),
         backups |-> bk \cup {hd}]

\* ------------------------------------------------------ local sandbox runner

\* LocalSandboxRunner.create: a fresh id and an empty checkpoints.json.
SandboxCreate(dirs, id) == [x \in DOMAIN dirs \cup {id} |-> IF x = id THEN {} ELSE dirs[x]]

\* LocalSandboxRunner.destroy: the directory goes, and checkpoints.json with it.
SandboxDestroy(dirs, handle) == [x \in DOMAIN dirs \ {handle} |-> dirs[x]]

\* LocalSandboxRunner.checkpoint
SandboxCheckpoint(dirs, handle, id) == [dirs EXCEPT ![handle] = @ \cup {id}]

\* A restore that accepts the id of a checkpoint of any sandbox of the runner.
SandboxRestoreAnySandbox(dirs, handle, checkpoint_id) ==
    \E h \in DOMAIN dirs : checkpoint_id \in dirs[h]

\* A destroy that raises when the sandbox directory is gone.
SandboxDestroyRaisesWhenGone(dirs, handle) == handle \notin DOMAIN dirs

\* LocalSandboxRunner.destroy guards rmtree with exists() and pops the handle
\* with a default: it never raises. TRUE is "raises".
SandboxDestroyRaises(dirs, handle) == FALSE

\* LocalSandboxRunner.checkpoint writes checkpoints.json into the sandbox
\* directory and raises when the directory is gone. TRUE is "raises".
SandboxCheckpointRaises(dirs, handle) == handle \notin DOMAIN dirs

\* LocalSandboxRunner.restore raises unless the id is in the sandbox's own
\* checkpoints.json; TRUE is "returns", FALSE is "raises".
SandboxRestore(dirs, handle, checkpoint_id) ==
    /\ handle \in DOMAIN dirs
    /\ checkpoint_id \in dirs[handle]

\* ------------------------------------------------------------ verifier plan

StartsWith(path, prefix) ==
    /\ Len(prefix) <= Len(path)
    /\ SubSeq(path, 1, Len(prefix)) = prefix

\* verifier_plan._matches_scope, for scopes that end in "/".
MatchesScope(touched, scopes) ==
    \E sc \in scopes : \E p \in touched : StartsWith(p, sc)

\* sorted(selected)
CatalogOrder == <<"V1", "V2">>
InSet(S) == [i \in 1..Len(CatalogOrder) |-> CatalogOrder[i] \in S]
Sorted(S) ==
    LET keep == InSet(S)
        F[i \in 0..Len(CatalogOrder)] ==
            IF i = 0 THEN <<>>
            ELSE IF keep[i] THEN Append(F[i - 1], CatalogOrder[i]) ELSE F[i - 1]
    IN F[Len(CatalogOrder)]

\* verifier_plan.select_verifier_plan: the verifier_ids of the plan.
SelectVerifierPlan(touched, mood, required) ==
    LET known == {rq \in required : rq \in VerifierIds}
        defaults == IF mood \in DOMAIN MoodDefaults
                    THEN {d \in MoodDefaults[mood] : d \in VerifierIds} ELSE {}
        scoped == {v.id : v \in {c \in Catalog :
                      /\ ~(c.moods # {} /\ mood # "" /\ mood \notin c.moods)
                      /\ MatchesScope(touched, c.scopes)}}
    IN Sorted(known \cup defaults \cup scoped)

\* verifier_plan.build_verifier_specs: one spec per planned id with a command.
BuildVerifierSpecs(verifier_ids) == verifier_ids

\* ---------------------------------------- verifier plan, over lists and text
\* Here a path or a scope is its text, cut into the pieces that
\* _normalize_path and _matches_scope tell apart: ".", "/", "\" and names.
\* "./src/a.txt" is <<".", "/", "src", "/", "a.txt">>.

None == "None"

Range(s) == {s[i] : i \in DOMAIN s}
Count(x, s) == Cardinality({i \in DOMAIN s : s[i] = x})
Copies(x, n) == [k \in 1..n |-> x]

\* str.upper, on the mood names in use.
Upper(m) == IF m = "calm" THEN "CALM" ELSE IF m = "bold" THEN "BOLD" ELSE m

\* path.replace("\\", "/").lstrip("./")
NormalizePath(path) ==
    LET replaced == [i \in DOMAIN path |-> IF path[i] = "\\" THEN "/" ELSE path[i]]
        kept == {i \in DOMAIN replaced : replaced[i] \notin {".", "/"}}
    IN IF kept = {} THEN << >>
       ELSE SubSeq(replaced, CHOOSE i \in kept : \A j \in kept : i <= j, Len(replaced))

\* The order of Python's string comparison on the verifier ids in use.
IdOrder == <<"V1", "V2", "V9">>

\* The same on the normalized paths in use.
PathOrder == << <<"docs", "/", "b.md">>, <<"src", "/", "a.txt">> >>

\* sorted(s) for the list s, whose members all occur in order: repeated
\* members stay repeated.
SortedBy(order, s) ==
    LET F[i \in 0..Len(order)] ==
            IF i = 0 THEN << >>
            ELSE F[i - 1] \o Copies(order[i], Count(order[i], s))
    IN F[Len(order)]

\* A list left in the order it was given.
InGivenOrder(s) == s

\* sorted() of a list of verifier ids.
SortedIds(s) == SortedBy(IdOrder, s)

\* The ids of a set from the last to the first.
IdSetBackwards(S) ==
    LET In(x) == x \in S
        ascending == SelectSeq(IdOrder, In)
    IN [k \in DOMAIN ascending |-> ascending[Len(ascending) + 1 - k]]

\* sorted() of a set of verifier ids.
SortedIdSet(S) ==
    LET In(x) == x \in S
    IN SelectSeq(IdOrder, In)

\* sorted({_normalize_path(p) for p in touched_paths})
SortedNormalPaths(touched_paths) ==
    LET normal == {NormalizePath(touched_paths[i]) : i \in DOMAIN touched_paths}
        In(x) == x \in normal
    IN SelectSeq(PathOrder, In)

\* verifier_plan._matches_scope: a scope that ends in "/" is a prefix, any
\* other is an fnmatch pattern; the patterns in use have no wildcard and match
\* the one path they spell.
MatchesScopeList(touched, scopes) ==
    LET normalized == {NormalizePath(touched[i]) : i \in DOMAIN touched}
    IN \E k \in DOMAIN scopes :
           LET scope_norm == NormalizePath(scopes[k])
           IN IF scope_norm # << >> /\ scope_norm[Len(scope_norm)] = "/"
              THEN \E path \in normalized : StartsWith(path, scope_norm)
              ELSE \E path \in normalized : path = scope_norm

\* _hash_inputs: SHA-256 of the canonical JSON of the dict, taken as free of
\* collisions: the digest stands for the data it was computed from.
HashInputs(data) == [sha256 |-> data]

\* hashlib.sha256(f"plan:{inputs_hash}")
PlanId(inputs_hash) == [sha256 |-> <<"plan:", inputs_hash>>]

\* verifier_plan.select_verifier_plan, with the loaded configuration as an
\* argument.
VerifierPlan(touched_paths, mood, required_verifiers, risk_tier, config) ==
    LET verifiers == config.verifiers
        mood_defaults == config.mood_defaults
        mood_key == Upper(IF mood = None THEN "" ELSE mood)
        required == required_verifiers      \* `or []`: callers here pass a list
        verifier_index == {verifiers[i].id : i \in DOMAIN verifiers} \ {""}
        Unknown(id) == id \notin verifier_index
        unknown_required == SelectSeq(required, Unknown)
        known == Range(required) \cap verifier_index
        defaults == IF mood_key \in DOMAIN mood_defaults
                    THEN Range(mood_defaults[mood_key]) \cap verifier_index
                    ELSE {}
        Skipped(v) == \/ v.id = ""
                      \/ /\ v.moods # << >>
                         /\ mood_key # ""
                         /\ mood_key \notin {Upper(v.moods[k]) : k \in DOMAIN v.moods}
        scoped == {verifiers[i].id : i \in
                      {j \in DOMAIN verifiers :
                          /\ ~Skipped(verifiers[j])
                          /\ MatchesScopeList(touched_paths, verifiers[j].scopes)}}
        verifier_ids == SortedIdSet(known \cup defaults \cup scoped)
        inputs == [touched_paths |-> SortedNormalPaths(touched_paths),
                   mood |-> IF mood_key # "" THEN mood_key ELSE None,
                   required_verifiers |-> SortedIds(required),
                   risk_tier |-> risk_tier,
                   verifier_ids |-> verifier_ids,
                   unknown_required |-> SortedIds(unknown_required)]
        inputs_hash == HashInputs(inputs)
    IN [plan_id |-> PlanId(inputs_hash),
        inputs_hash |-> inputs_hash,
        verifier_ids |-> verifier_ids,
        unknown_required |-> SortedIds(unknown_required)]

\* ------------------------------------------------------------- orchestrator

\* No call of the mood engine, and none of the planner. A result not yet
\* returned is the empty list, a returned one the list of that one value.
NoMoodCall == [fn |-> "", current |-> "", inputs |-> << >>, result |-> "", again |-> ""]
NoPlanCall == [args |-> << >>, result |-> << >>, reordered |-> << >>, again |-> << >>]

\* None of the parts modelled on their own is in use.
NoComponents ==
    /\ verifierCall = << >>
    /\ sandboxOp = << >>
    /\ wsState = << >>
    /\ agentLoop = << >>
    /\ editCall = << >>
    /\ normCall = << >>
    /\ logCall = << >>
    /\ gitCall = << >>

NoCheckpoint == [success |-> FALSE, commit_sha |-> 0, created |-> FALSE]

\* The locals of one call of run / run_async, and the calls it has made on its
\* collaborators (git_revert, the sandbox runner, the rollback sink); session
\* is the caller that made the call (0 until StartRun names it), threw whether
\* the executor ended by raising, and cancelled whether the call ended by the
\* cancellation of its task.
NewCtx(mode, work_item, start_seq, specs, handle) ==
    [mode |-> mode, work_item |-> work_item, start_seq |-> start_seq,
     handle |-> handle, writes |-> 0, success |-> FALSE, executed |-> FALSE,
     specs |-> specs, results |-> <<>>, raised |-> FALSE, exited |-> FALSE,
     checkpoint |-> NoCheckpoint, promoted |-> FALSE,
     reverts |-> <<>>, restores |-> <<>>, notified |-> 0, destroys |-> 0,
     session |-> 0, threw |-> FALSE, cancelled |-> FALSE]

Init ==
    /\ events = <<>>
    /\ runs = <<>>
    /\ workItems = <<>>
    /\ runNotes = {}
    /\ runVerifications = {}
    /\ commitRequests = {}
    /\ syncState = [last_good_checkpoint |-> 0, sandbox_checkpoint |-> 0]
    /\ \/ commits = <<>> /\ head = 0
       \/ commits = <<[parent |-> 0, paths |-> InitialTracked]>> /\ head = 1
    /\ dirty = {}
    /\ backups = {}
    /\ sandboxDirs = << >>
    /\ sandboxesCreated = 0
    /\ checkpointsMade = 0
    /\ keepFlag \in BOOLEAN
    /\ pc = [s \in Sessions |-> "idle"]
    /\ cur = [s \in Sessions |-> 0]
    /\ ctx = [r \in {} |-> NewCtx("sync", 0, 0, <<>>, 0)]
    /\ seqBase = 0
    /\ files = << >>
    /\ conversations = << >>
    /\ messages = {}
    /\ toolCalls = {}
    /\ ahdbState = NoDelta
    /\ ahdbDeltas = {}
    /\ patches = 0
    /\ moodCall = NoMoodCall
    /\ planCall = NoPlanCall
    /\ NoComponents

\* The event loop runs one coroutine at a time: run_async gives the loop up
\* only at `await execute_run(run)`, and run() never does.
Blocking(t) ==
    /\ pc[t] \notin {"idle", "closed"}
    /\ ~(pc[t] = "executing" /\ ctx[cur[t]].mode = "async")

LoopFree(s) == \A t \in Sessions \ {s} : ~Blocking(t)

\* Sessions are interchangeable: the next call is taken to arrive on the lowest
\* idle one.
LowestIdle(s) == \A t \in Sessions : t < s => pc[t] # "idle"

\* The tables become db.
SetTables(db) ==
    /\ files' = db.files
    /\ conversations' = db.conversations
    /\ messages' = db.messages
    /\ toolCalls' = db.tool_calls
    /\ ahdbState' = db.ahdb_state
    /\ ahdbDeltas' = db.ahdb_deltas
    /\ runNotes' = db.run_notes
    /\ runVerifications' = db.run_verifications
    /\ commitRequests' = db.run_commit_requests

\* The helpers' writes ws land in the log and in the helpers' tables.
Store(ws) ==
    /\ events' = AppendAll(events, ws)
    /\ SetTables(InsertAll(Tables, ws, seqBase + Len(events)))

\* _ensure_last_good_checkpoint without its early return: HEAD is snapshotted
\* at the start of every run.
EnsureLastGoodCheckpointAlways(ss, hd) ==
    IF hd # 0 THEN SetLastGoodCheckpoint(ss, hd) ELSE ss

\* RunOrchestrator._ensure_last_good_checkpoint
EnsureLastGoodCheckpoint(ss, hd) ==
    IF GetLastGoodCheckpoint(ss) # 0 THEN ss
    ELSE IF hd # 0 THEN SetLastGoodCheckpoint(ss, hd)
    ELSE ss

\* RunOrchestrator._create_sandbox: the handle (0: none) and the restore result
\* ("": none), given whether the runner's create succeeds.
CreateSandbox(dirs, id, ss, createOk) ==
    IF ~createOk THEN [handle |-> 0, restore |-> "create_failed", dirs |-> dirs]
    ELSE LET made == SandboxCreate(dirs, id)
             last == GetLastSandboxCheckpoint(ss)
         IN [handle |-> id,
             restore |-> IF last = 0 THEN ""
                         ELSE IF SandboxRestore(made, id, last) THEN "restored"
                         ELSE "restore_failed",
             dirs |-> made]

\* The notes run / run_async write about the sandbox it provisioned.
SandboxNotes(r, sb) ==
    IF sb.handle # 0 THEN
        <<Observation(r, "sandbox.create", TRUE)>>
        \o (IF sb.restore # ""
            THEN <<Observation(r, "sandbox.restore", sb.restore = "restored")>>
            ELSE <<>>)
    ELSE IF sb.restore # "" THEN <<Observation(r, "sandbox.create", FALSE)>>
    ELSE <<>>

\* run / run_async up to the call of the executor: the caller's work item, the
\* run in status running, start_seq, the last-good pointer, the first status
\* note and the sandbox.
StartRun(s, mode, specs, createOk) ==
    /\ pc[s] = "idle"
    /\ LowestIdle(s)
    /\ LoopFree(s)
    /\ Len(runs) < MaxRuns
    /\ mode = "async" => specs = <<>>
    /\ LET w == Len(workItems) + 1
           r == Len(runs) + 1
           sb == CreateSandbox(sandboxDirs, sandboxesCreated + 1, syncState, createOk)
       IN /\ workItems' = Append(workItems,
                 [status |-> IF mode = "async" THEN "queued" ELSE "pending",
                  required_verifiers |-> {}])
          /\ runs' = Append(runs, [work_item_id |-> w, status |-> "running", mood |-> "CALM"])
          /\ syncState' = EnsureLastGoodCheckpoint(syncState, head)
          /\ Store(<<StatusNote(r, "running", "execute")>> \o SandboxNotes(r, sb))
          /\ sandboxDirs' = sb.dirs
          /\ sandboxesCreated' = IF createOk THEN sandboxesCreated + 1 ELSE sandboxesCreated
          /\ ctx' = ctx @@ (r :> [NewCtx(mode, w,
                        IF mode = "async" THEN GetLatestSeq(events) ELSE 0,
                        specs, sb.handle) EXCEPT !.session = s])
          /\ cur' = [cur EXCEPT ![s] = r]
          /\ pc' = [pc EXCEPT ![s] = "executing"]
    /\ UNCHANGED << gitVars, checkpointsMade, keepFlag, otherVars >>

\* The executor's write_file tool: the file changes and a file.write is logged.
ExecutorWrite(s, p) ==
    /\ pc[s] = "executing"
    /\ LoopFree(s)
    /\ ctx[cur[s]].writes < MaxWrites
    /\ Store(<<FileWrite(p, cur[s])>>)
    /\ dirty' = dirty \cup {p}
    /\ ctx' = [ctx EXCEPT ![cur[s]].writes = @ + 1]
    /\ UNCHANGED << runs, workItems, syncState, commits, head, backups, sandboxVars,
                    keepFlag, pc, cur, otherVars >>

\* The executor's git_checkpoint tool: git_ops.checkpoint, which logs nothing.
ExecutorGitCheckpoint(s, outcome) ==
    /\ pc[s] = "executing"
    /\ LoopFree(s)
    /\ LET c == Checkpoint(commits, head, dirty, outcome)
       IN /\ commits' = c.commits
          /\ head' = c.head
          /\ dirty' = c.dirty
    /\ UNCHANGED << storeVars, backups, sandboxVars, keepFlag, pc, cur, ctx, otherVars >>

ExecutorOutcomes == {"ok", "fail", "raise"}

\* run_async: the verifier specs come from the plan over the paths touched
\* since start_seq; run() is handed them.
PlannedSpecs(evs, items, rs, c, r) ==
    IF c.mode = "async"
    THEN BuildVerifierSpecs(SelectVerifierPlan(
             GetEventPathsSince(evs, c.start_seq), rs[r].mood,
             items[c.work_item].required_verifiers))
    ELSE c.specs

\* The executor-failure branch without its `return response`: the run falls
\* through to verification.
ExecutorFailureFallsThrough == "verifying"

\* `return response` of the executor-failure branch: on to the finally clause.
ExecutorFailureExit == "finally"

\* The executor-failure note carrying the status the run had, not the new one.
ExecutorFailureNoteStale(r) == StatusNote(r, "running", "verify")

\* The note of the executor-failure branch.
ExecutorFailureNote(r) == StatusNote(r, "failed", "verify")

\* The executor's exception recorded as a plain observation.
ExecutorErrorAsObservation(r) == Note("note.observation", r, Body("", "", "error", FALSE))

\* `except Exception as exc`: the note.hyperthesis with the error and the bound.
HyperthesisNote(r) == Note("note.hyperthesis", r, Body("", "", "error", FALSE))

\* run / run_async from the executor's return to the start of verification:
\* an exception is noted as note.hyperthesis and counts as failure; failure
\* marks the run failed and returns; success marks it verifying.
ExecutorReturn(s, outcome) ==
    /\ pc[s] = "executing"
    /\ LoopFree(s)
    /\ LET r == cur[s]
           success == outcome = "ok"
           caught == IF outcome = "raise" THEN <<HyperthesisNote(r)>> ELSE <<>>
           specs == PlannedSpecs(events, workItems, runs, ctx[r], r)
       IN /\ ctx' = [ctx EXCEPT ![r].success = success, ![r].executed = TRUE,
                                ![r].specs = specs, ![r].threw = outcome = "raise"]
          /\ IF ~success
             THEN /\ runs' = UpdateRun(runs, r, "failed", "SKEPTICAL")
                  /\ Store(caught \o <<ExecutorFailureNote(r)>>)
                  /\ pc' = [pc EXCEPT ![s] = ExecutorFailureExit]
             ELSE /\ runs' = UpdateRun(runs, r, "verifying", runs[r].mood)
                  /\ Store(<<StatusNote(r, "verifying", "verify")>>)
                  /\ pc' = [pc EXCEPT ![s] = "verifying"]
    /\ UNCHANGED << workItems, syncState, gitVars, sandboxVars, keepFlag, cur, otherVars >>

\* What VerifierRunner.run does with one spec. Under run_async it calls
\* asyncio.run inside the running event loop, which raises RuntimeError; under
\* run() the command passes, fails, or cannot be started (subprocess.run
\* raises, and LocalSandboxRunner.run catches TimeoutExpired only).
VerifierOutcomes(mode) ==
    IF mode = "async" THEN {"raise"} ELSE {"pass", "fail", "raise"}

\* One turn of `for spec in verifier_specs`.
RunVerifier(s, outcome) ==
    /\ pc[s] = "verifying"
    /\ LET r == cur[s]
       IN /\ Len(ctx[r].results) < Len(ctx[r].specs)
          /\ outcome \in VerifierOutcomes(ctx[r].mode)
          /\ IF outcome = "raise"
             THEN /\ ctx' = [ctx EXCEPT ![r].raised = TRUE]
                  /\ pc' = [pc EXCEPT ![s] = "finally"]
                  /\ UNCHANGED << events, runNotes, runVerifications, commitRequests,
                                  files, projVars >>
             ELSE /\ ctx' = [ctx EXCEPT ![r].results = Append(@, outcome)]
                  /\ Store(<<Write("add_run_verification", "receipt.verifier.attestations",
                                   r, Body(outcome, "", "", TRUE))>>)
                  /\ UNCHANGED pc
    /\ UNCHANGED << runs, workItems, syncState, gitVars, sandboxVars, keepFlag, cur,
                    otherVars >>

\* any(...) where the code has all(...).
AnyPassed(results) == \E i \in 1..Len(results) : results[i] = "pass"

\* all(result.status == "pass" for result in results)
AllPassed(results) == \A i \in 1..Len(results) : results[i] = "pass"

FinalStatus(all_passed) == IF all_passed THEN "verified" ELSE "failed"

\* The adjudication: the final status and its note.
Adjudicate(s) ==
    /\ pc[s] = "verifying"
    /\ LET r == cur[s]
           all_passed == AllPassed(ctx[r].results)
       IN /\ Len(ctx[r].results) = Len(ctx[r].specs)
          /\ runs' = UpdateRun(runs, r, FinalStatus(all_passed), "SKEPTICAL")
          /\ Store(<<StatusNote(r, FinalStatus(all_passed), "adjudicate")>>)
          /\ pc' = [pc EXCEPT ![s] = IF all_passed THEN "promote" ELSE "rollback"]
    /\ UNCHANGED << workItems, syncState, gitVars, sandboxVars, keepFlag, cur, ctx,
                    otherVars >>

\* The pointer set from the checkpoint result without looking at its success.
PromoteLastGoodUnchecked(ss, result) == SetLastGoodCheckpoint(ss, result.commit_sha)

\* if checkpoint_result.get("success") and checkpoint_result.get("commit_sha")
PromoteLastGood(ss, result) ==
    IF result.success /\ result.commit_sha # 0
    THEN SetLastGoodCheckpoint(ss, result.commit_sha)
    ELSE ss

\* The all_passed branch: repository checkpoint, last-good pointer, sandbox
\* checkpoint and its pointer, commit request.
Promote(s, outcome) ==
    /\ pc[s] = "promote"
    /\ LET r == cur[s]
           h == ctx[r].handle
           c == Checkpoint(commits, head, dirty, outcome)
           result == [success |-> c.success, commit_sha |-> c.commit_sha,
                      created |-> c.created]
           ss1 == PromoteLastGood(syncState, result)
           snap == h # 0
           id == checkpointsMade + 1
       IN /\ commits' = c.commits
          /\ head' = c.head
          /\ dirty' = c.dirty
          /\ sandboxDirs' = IF snap THEN SandboxCheckpoint(sandboxDirs, h, id)
                            ELSE sandboxDirs
          /\ checkpointsMade' = IF snap THEN id ELSE checkpointsMade
          /\ syncState' = IF snap THEN SetLastSandboxCheckpoint(ss1, id) ELSE ss1
          /\ Store(<<Observation(r, "checkpoint", c.success)>>
                   \o (IF h # 0 THEN <<Observation(r, "sandbox.checkpoint", TRUE)>>
                       ELSE <<>>)
                   \o <<Write("add_commit_request", "note.request.verify", r,
                               Body("ready_for_review", "", "", TRUE))>>)
          /\ ctx' = [ctx EXCEPT ![r].checkpoint = result, ![r].promoted = TRUE]
          /\ pc' = [pc EXCEPT ![s] = "finally"]
    /\ UNCHANGED << runs, workItems, backups, sandboxesCreated, keepFlag, cur, otherVars >>

\* git_revert called with its default, dry_run true.
RollbackRevertsDryRun(last_good) ==
    IF last_good # 0 THEN <<[sha |-> last_good, dry_run |-> TRUE]>> ELSE <<>>

\* The git_revert calls of the rollback: one, with dry_run false, when a
\* last-good checkpoint is set.
RollbackReverts(last_good) ==
    IF last_good # 0 THEN <<[sha |-> last_good, dry_run |-> FALSE]>> ELSE <<>>

\* The sandbox restores of the rollback.
RollbackRestores(handle, last_sandbox_checkpoint) ==
    IF handle # 0 /\ last_sandbox_checkpoint # 0
    THEN <<last_sandbox_checkpoint>> ELSE <<>>

\* The else branch: revert the repository, restore the sandbox, notify.
Rollback(s, outcome) ==
    /\ pc[s] = "rollback"
    /\ LET r == cur[s]
           h == ctx[r].handle
           last_good == GetLastGoodCheckpoint(syncState)
           calls == RollbackReverts(last_good)
           g == IF calls # <<>>
                THEN GitRevert(commits, head, dirty, backups, calls[1].sha,
                               calls[1].dry_run, outcome)
                ELSE [success |-> FALSE, head |-> head, dirty |-> dirty,
                      backups |-> backups]
           restores == RollbackRestores(h, GetLastSandboxCheckpoint(syncState))
       IN /\ calls = <<>> => outcome = "ok"
          /\ head' = g.head
          /\ dirty' = g.dirty
          /\ backups' = g.backups
          /\ Store(<<Observation(r, "rollback", g.success)>>
                   \o (IF restores # <<>>
                       THEN <<Observation(r, "sandbox.restore",
                                  SandboxRestore(sandboxDirs, h, restores[1]))>>
                       ELSE <<>>))
          /\ ctx' = [ctx EXCEPT ![r].reverts = calls, ![r].restores = restores,
                                ![r].notified = @ + 1]
          /\ pc' = [pc EXCEPT ![s] = "finally"]
    /\ UNCHANGED << runs, workItems, syncState, commits, sandboxVars, keepFlag, cur,
                    otherVars >>

\* _destroy_sandbox without its look at CHOIR_SANDBOX_KEEP.
ShouldDestroyIgnoringKeep(handle, keep) == handle # 0

\* RunOrchestrator._destroy_sandbox: whether the runner's destroy is called.
ShouldDestroy(handle, keep) == handle # 0 /\ ~keep

\* A WebSocket handler that caught whatever run_async raised and went on to
\* the next prompt.
HandlerSwallows(mode, raised) == "idle"

\* Where the caller stands once its call is over: agent_websocket goes back to
\* receive_json after a return and catches nothing but WebSocketDisconnect, so
\* an exception out of run_async ends the handler; a caller of run() is free
\* to call again.
HandlerAfter(mode, raised) ==
    IF mode = "async" /\ raised THEN "closed" ELSE "idle"

\* The finally clause, and the caller's next step: the WebSocket handler marks
\* the work item from the returned run, or dies with the exception.
Finally(s) ==
    /\ pc[s] = "finally"
    /\ LET r == cur[s]
           c == ctx[r]
           destroy == ShouldDestroy(c.handle, keepFlag)
       IN /\ sandboxDirs' = IF destroy THEN SandboxDestroy(sandboxDirs, c.handle)
                            ELSE sandboxDirs
          /\ ctx' = [ctx EXCEPT ![r].exited = TRUE,
                                ![r].destroys = IF destroy THEN @ + 1 ELSE @]
          /\ workItems' =
                 IF c.mode = "async" /\ ~c.raised
                 THEN [workItems EXCEPT ![c.work_item].status =
                          IF runs[r].status = "verified" THEN "done"
                          ELSE IF runs[r].status = "failed" THEN "failed"
                          ELSE @]
                 ELSE workItems
          /\ pc' = [pc EXCEPT ![s] = HandlerAfter(c.mode, c.raised)]
          /\ cur' = [cur EXCEPT ![s] = 0]
    /\ UNCHANGED << events, runs, runNotes, runVerifications, commitRequests, syncState,
                    gitVars, sandboxesCreated, checkpointsMade, keepFlag, files, projVars,
                    otherVars >>

Next ==
    \/ \E s \in Sessions, createOk \in BOOLEAN : StartRun(s, "async", <<>>, createOk)
    \/ \E s \in Sessions, specs \in SpecLists, createOk \in BOOLEAN :
           StartRun(s, "sync", specs, createOk)
    \/ \E s \in Sessions, p \in Paths : ExecutorWrite(s, p)
    \/ \E s \in Sessions, o \in CheckpointOutcomes : ExecutorGitCheckpoint(s, o)
    \/ \E s \in Sessions, o \in ExecutorOutcomes : ExecutorReturn(s, o)
    \/ \E s \in Sessions, o \in {"pass", "fail", "raise"} : RunVerifier(s, o)
    \/ \E s \in Sessions : Adjudicate(s)
    \/ \E s \in Sessions, o \in CheckpointOutcomes : Promote(s, o)
    \/ \E s \in Sessions, o \in RevertOutcomes : Rollback(s, o)
    \/ \E s \in Sessions : Finally(s)

Spec == Init /\ [][Next]_vars

\* ------------------------------------------------------------- cancellation

\* The task of a WebSocket session is cancelled while run_async is suspended
\* at `await execute_run(run)`, its only suspension point: CancelledError is a
\* BaseException, so `except Exception` lets it pass, no branch after the
\* executor runs, and only the finally clause is left.
Cancel(s) ==
    /\ pc[s] = "executing"
    /\ ctx[cur[s]].mode = "async"
    /\ LoopFree(s)
    /\ ctx' = [ctx EXCEPT ![cur[s]].raised = TRUE, ![cur[s]].threw = TRUE,
                          ![cur[s]].cancelled = TRUE]
    /\ pc' = [pc EXCEPT ![s] = "finally"]
    /\ UNCHANGED << storeVars, gitVars, sandboxVars, keepFlag, cur, otherVars >>

NextSession ==
    \/ Next
    \/ \E s \in Sessions : Cancel(s)

SpecSession == Init /\ [][NextSession]_vars

\* ---------------------------------------------------------- control surface

\* The statuses a POST /run payload names; without one the run is "created".
PostStatuses == {"created", "running"}

\* POST /run: 404 unless the work item exists; otherwise EventStore.create_run
\* inserts the row. The handler is a coroutine of the same event loop.
HttpCreateRun(work_item_id, status) ==
    /\ \A s \in Sessions : ~Blocking(s)
    /\ Len(runs) < MaxRuns
    /\ work_item_id \in 1..Len(workItems)
    /\ runs' = Append(runs, [work_item_id |-> work_item_id, status |-> status,
                             mood |-> ""])
    /\ UNCHANGED << events, workItems, runNotes, runVerifications, commitRequests,
                    syncState, gitVars, sandboxVars, keepFlag, pc, cur, ctx, files, projVars,
                    otherVars >>

\* The status a PATCH /run/{id} payload names.
PatchStatuses == {"running"}

\* PATCH /run/{id} with a status in its payload: 404 unless the run exists;
\* otherwise EventStore.update_run writes the status.
HttpUpdateRun(run_id, status) ==
    /\ \A s \in Sessions : ~Blocking(s)
    /\ patches < MaxPatches
    /\ run_id \in 1..Len(runs)
    /\ runs' = UpdateRun(runs, run_id, status, runs[run_id].mood)
    /\ patches' = patches + 1
    /\ UNCHANGED << events, workItems, runNotes, runVerifications, commitRequests,
                    syncState, gitVars, sandboxVars, keepFlag, pc, cur, ctx, files, projVars,
                    seqBase, moodCall, planCall, componentVars >>

NextSurface ==
    \/ Next
    \/ \E w \in 1..MaxRuns, st \in PostStatuses : HttpCreateRun(w, st)
    \/ \E r \in 1..MaxRuns, st \in PatchStatuses : HttpUpdateRun(r, st)

SpecSurface == Init /\ [][NextSurface]_vars

\* ------------------------------------------------------- the store in use

\* The orchestrator at rest and no call of the pure functions: what the
\* behaviours of the store, of the mood engine and of the planner start from.
AtRest ==
    /\ workItems = <<>>
    /\ runs = <<>>
    /\ syncState = [last_good_checkpoint |-> 0, sandbox_checkpoint |-> 0]
    /\ commits = <<>>
    /\ head = 0
    /\ dirty = {}
    /\ backups = {}
    /\ sandboxDirs = << >>
    /\ sandboxesCreated = 0
    /\ checkpointsMade = 0
    /\ keepFlag = FALSE
    /\ pc = [s \in Sessions |-> "idle"]
    /\ cur = [s \in Sessions |-> 0]
    /\ ctx = [r \in {} |-> NewCtx("sync", 0, 0, <<>>, 0)]
    /\ patches = 0

atRestVars == << workItems, runs, syncState, gitVars, sandboxVars, keepFlag, pc, cur, ctx,
                 patches >>

\* The store's callers here: conversation 1 (start_conversation made its row),
\* run 1, two AHDB slots with two values each, two content hashes.
Slots == {"assert", "drive"}
DeltaValues == {1, 2}
Deltas == UNION {[S -> DeltaValues] : S \in SUBSET Slots}
Hashes == {1, 2}

\* The calls of the write helpers, by the event and payload each one appends.
HelperWrites ==
    {[Write("add_message", "message", 0, NoBody) EXCEPT !.conv = 1, !.text = "hello"]}
    \cup {[Write("log_tool_call", "tool.call", 0, NoBody)
              EXCEPT !.conv = 1, !.text = "read_file"]}
    \cup {[FileWrite(p, 0) EXCEPT !.hash = h] : p \in Paths, h \in Hashes}
    \cup {[Write("log_file_delete", "file.delete", 0, NoBody) EXCEPT !.path = p] : p \in Paths}
    \cup {[Write("log_ahdb_delta", "receipt.ahdb.delta", 0, NoBody) EXCEPT !.delta = d] :
              d \in Deltas}
    \cup {StatusNote(1, "running", "execute")}
    \cup {Write("add_run_verification", "receipt.verifier.attestations", 1,
                Body("pass", "", "", TRUE))}
    \cup {Write("add_commit_request", "note.request.verify", 1,
                Body("ready_for_review", "", "", TRUE))}

\* The same events handed to EventStore.append itself.
BareWrites == {[w EXCEPT !.helper = "append"] : w \in HelperWrites}

InitStore ==
    /\ AtRest
    /\ events = <<>>
    /\ seqBase = 0
    /\ files = << >>
    /\ conversations = (1 :> 0)
    /\ messages = {}
    /\ toolCalls = {}
    /\ ahdbState = NoDelta
    /\ ahdbDeltas = {}
    /\ runNotes = {}
    /\ runVerifications = {}
    /\ commitRequests = {}
    /\ moodCall = NoMoodCall
    /\ planCall = NoPlanCall
    /\ NoComponents

\* One call of a write helper: the append and the helper's own table update.
CallHelper(w) ==
    /\ seqBase + Len(events) < MaxEvents
    /\ w \in HelperWrites
    /\ Store(<<w>>)
    /\ UNCHANGED << atRestVars, seqBase, moodCall, planCall, componentVars >>

\* One call of EventStore.append by a caller that uses no helper: the event is
\* inserted and no table is touched.
BareAppend(w) ==
    /\ seqBase + Len(events) < MaxEvents
    /\ w \in BareWrites
    /\ Store(<<w>>)
    /\ UNCHANGED << atRestVars, seqBase, moodCall, planCall, componentVars >>

\* EventStore.rebuild_projection_from_events
RebuildProjection ==
    /\ SetTables(RebuildProjectionFromEvents(events, seqBase))
    /\ UNCHANGED << atRestVars, events, seqBase, moodCall, planCall, componentVars >>

\* EventStore.rebuild_from_nats with a NATS client at hand (without one it
\* raises before it touches anything): every projection table and the events
\* table are emptied and the deletion is committed; then the stream is fetched.
\* NATSClient.get_events returns ChoirEvent objects, so the first turn of
\* `for event, nats_seq in events` raises TypeError; an empty stream ends the
\* loop at once. Either way nothing is inserted again. AUTOINCREMENT keeps the
\* seqs of the deleted rows retired.
RebuildFromNats ==
    /\ SetTables(NoTables)
    /\ events' = <<>>
    /\ seqBase' = seqBase + Len(events)
    /\ UNCHANGED << atRestVars, moodCall, planCall, componentVars >>

NextStore ==
    \/ \E w \in HelperWrites : CallHelper(w)
    \/ \E w \in BareWrites : BareAppend(w)
    \/ RebuildProjection
    \/ RebuildFromNats

SpecStore == InitStore /\ [][NextStore]_vars

\* -------------------------------------------------------------- mood engine

Moods == {"CALM", "CURIOUS", "SKEPTICAL", "PARANOID", "BOLD", "PETTY", "CONTRITE",
          "DEFERENTIAL"}

\* MoodInputs(), every field at its default.
DefaultInputs ==
    [crash_detected |-> FALSE, has_demo |-> TRUE, conjectures_present |-> TRUE,
     repeated_verifier_failures |-> FALSE, about_to_cross_privilege_boundary |-> FALSE,
     preference_missing |-> FALSE, ambiguity_blocking |-> FALSE, user_idk |-> FALSE,
     verifiers_regress |-> FALSE, hyperthesis_high |-> FALSE,
     mitigations_installed |-> FALSE, verified_and_bounded |-> FALSE,
     suspected_reward_hack |-> FALSE, state_consistent |-> TRUE, previous_mood |-> ""]

\* The signal records handed to select_initial_mood: every value of the
\* fields it reads.
SelectInputs ==
    {[DefaultInputs EXCEPT !.crash_detected = b[1], !.has_demo = b[2],
                           !.conjectures_present = b[3],
                           !.repeated_verifier_failures = b[4],
                           !.about_to_cross_privilege_boundary = b[5],
                           !.preference_missing = b[6]] :
        b \in [1..6 -> BOOLEAN]}

\* The signal records handed to transition_mood: every value of the fields it
\* reads, previous_mood among them.
TransitionInputs ==
    {[DefaultInputs EXCEPT !.crash_detected = b[1], !.suspected_reward_hack = b[2],
                           !.preference_missing = b[3], !.ambiguity_blocking = b[4],
                           !.user_idk = b[5], !.verifiers_regress = b[6],
                           !.hyperthesis_high = b[7], !.verified_and_bounded = b[8],
                           !.mitigations_installed = b[9], !.state_consistent = b[10],
                           !.previous_mood = m] :
        b \in [1..10 -> BOOLEAN], m \in Moods \cup {""}}

\* select_initial_mood with the verifier-failure rule tried before the
\* demo / conjecture rule.
SelectInitialMoodFailuresFirst(inputs) ==
    IF inputs.crash_detected THEN "CONTRITE"
    ELSE IF inputs.repeated_verifier_failures THEN "SKEPTICAL"
    ELSE IF ~inputs.has_demo \/ ~inputs.conjectures_present THEN "CURIOUS"
    ELSE IF inputs.about_to_cross_privilege_boundary
         THEN (IF inputs.preference_missing THEN "DEFERENTIAL" ELSE "PARANOID")
    ELSE "CALM"

\* mood_engine.select_initial_mood
SelectInitialMood(inputs) ==
    IF inputs.crash_detected THEN "CONTRITE"
    ELSE IF ~inputs.has_demo \/ ~inputs.conjectures_present THEN "CURIOUS"
    ELSE IF inputs.repeated_verifier_failures THEN "SKEPTICAL"
    ELSE IF inputs.about_to_cross_privilege_boundary
         THEN (IF inputs.preference_missing THEN "DEFERENTIAL" ELSE "PARANOID")
    ELSE "CALM"

\* Rules that look at the signals alone, whatever the current mood.
StateRuleOfAnyMood(current, inputs) ==
    IF inputs.ambiguity_blocking \/ inputs.user_idk THEN "CURIOUS"
    ELSE IF inputs.verifiers_regress THEN "SKEPTICAL"
    ELSE IF inputs.verified_and_bounded THEN "CALM"
    ELSE current

\* The per-state rules of transition_mood: the `if current == ...` chain and
\* the final `return current`.
StateRule(current, inputs) ==
    IF current = "CALM" THEN
        (IF inputs.ambiguity_blocking \/ inputs.user_idk THEN "CURIOUS"
         ELSE IF inputs.verifiers_regress THEN "SKEPTICAL"
         ELSE current)
    ELSE IF current = "SKEPTICAL" THEN
        (IF inputs.hyperthesis_high THEN "PARANOID"
         ELSE IF inputs.verified_and_bounded THEN "CALM"
         ELSE current)
    ELSE IF current = "PARANOID" THEN
        (IF inputs.mitigations_installed THEN "BOLD" ELSE current)
    ELSE IF current = "CONTRITE" THEN
        (IF inputs.state_consistent
         THEN (IF inputs.previous_mood # "" THEN inputs.previous_mood ELSE "CALM")
         ELSE "CONTRITE")
    ELSE current

\* The three preemptions of transition_mood ("": none applies).
Preemption(inputs) ==
    IF inputs.crash_detected THEN "CONTRITE"
    ELSE IF inputs.suspected_reward_hack THEN "PETTY"
    ELSE IF inputs.preference_missing THEN "DEFERENTIAL"
    ELSE ""

\* transition_mood with preference_missing tried before suspected_reward_hack.
TransitionMoodPreferenceFirst(current, inputs) ==
    IF inputs.crash_detected THEN "CONTRITE"
    ELSE IF inputs.preference_missing THEN "DEFERENTIAL"
    ELSE IF inputs.suspected_reward_hack THEN "PETTY"
    ELSE StateRule(current, inputs)

\* transition_mood with the per-state rule tried before the preemptions.
TransitionMoodRulesFirst(current, inputs) ==
    IF StateRule(current, inputs) # current THEN StateRule(current, inputs)
    ELSE IF Preemption(inputs) # "" THEN Preemption(inputs)
    ELSE current

\* mood_engine.transition_mood
TransitionMood(current, inputs) ==
    IF Preemption(inputs) # "" THEN Preemption(inputs)
    ELSE StateRule(current, inputs)

\* All tables of the store empty.
EmptyStore ==
    /\ events = <<>>
    /\ seqBase = 0
    /\ files = << >>
    /\ conversations = << >>
    /\ messages = {}
    /\ toolCalls = {}
    /\ ahdbState = NoDelta
    /\ ahdbDeltas = {}
    /\ runNotes = {}
    /\ runVerifications = {}
    /\ commitRequests = {}

emptyStoreVars == << events, seqBase, files, projVars, runNotes, runVerifications,
                     commitRequests >>

\* A call of select_initial_mood or of transition_mood about to be made.
InitMood ==
    /\ AtRest
    /\ EmptyStore
    /\ planCall = NoPlanCall
    /\ NoComponents
    /\ moodCall \in
           {[fn |-> "select_initial_mood", current |-> "", inputs |-> i, result |-> "",
             again |-> ""] : i \in SelectInputs}
           \cup {[fn |-> "transition_mood", current |-> c, inputs |-> i, result |-> "",
                  again |-> ""] : c \in Moods, i \in TransitionInputs}

CallSelectInitialMood ==
    /\ moodCall.fn = "select_initial_mood"
    /\ moodCall.result = ""
    /\ moodCall' = [moodCall EXCEPT !.result = SelectInitialMood(moodCall.inputs)]
    /\ UNCHANGED << atRestVars, emptyStoreVars, planCall, componentVars >>

CallTransitionMood ==
    /\ moodCall.fn = "transition_mood"
    /\ moodCall.result = ""
    /\ moodCall' = [moodCall EXCEPT
                       !.result = TransitionMood(moodCall.current, moodCall.inputs)]
    /\ UNCHANGED << atRestVars, emptyStoreVars, planCall, componentVars >>

\* The caller hands the mood it got back in, with the same signal record.
CallTransitionMoodAgain ==
    /\ moodCall.fn = "transition_mood"
    /\ moodCall.result # ""
    /\ moodCall.again = ""
    /\ moodCall' = [moodCall EXCEPT
                       !.again = TransitionMood(moodCall.result, moodCall.inputs)]
    /\ UNCHANGED << atRestVars, emptyStoreVars, planCall, componentVars >>

NextMood ==
    \/ CallSelectInitialMood
    \/ CallTransitionMood
    \/ CallTransitionMoodAgain

SpecMood == InitMood /\ [][NextMood]_vars

\* ------------------------------------------------------------ planner calls

\* The texts of touched paths: one file spelled three ways, and another file.
RawPaths ==
    { <<"src", "/", "a.txt">>, <<".", "/", "src", "/", "a.txt">>,
      <<"src", "\\", "a.txt">>, <<"docs", "/", "b.md">> }

\* Verifier ids a caller may require; V9 is in no catalog.
RequiredIds == {"V1", "V2", "V9"}

PlanMoods == {None, "calm", "BOLD"}
RiskTiers == {None, "high"}

\* The lists over S, and the orderings of one list.
Lists(S) == UNION {[1..n -> S] : n \in 0..MaxListLen}
Perms(s) == {t \in [DOMAIN s -> Range(s)] : \A x \in Range(s) : Count(x, t) = Count(x, s)}
Reorderings(L) == UNION {{<<s, t>> : t \in Perms(s)} : s \in L}

\* Catalog entries: V1 runs under CALM for src/ and for docs/b.md, V2 has no
\* scope of its own.
V1Entry(scopes) == [id |-> "V1", moods |-> <<"calm">>, scopes |-> scopes]
V2Entry == [id |-> "V2", moods |-> << >>, scopes |-> << >>]
V1Scopes == << <<"src", "/">>, <<".", "/", "docs", "/", "b.md">> >>

\* The `verifiers` lists of a configuration file, and its mood_defaults.
VerifierLists == UNION {{<<V1Entry(sc), V2Entry>>, <<V2Entry, V1Entry(sc)>>} : sc \in Perms(V1Scopes)}
DefaultLists == {<< >>, <<"V2", "V9">>}
Config(verifiers, defaults) ==
    [verifiers |-> verifiers, mood_defaults |-> [m \in {"CALM"} |-> defaults]]

PlanArgs(touched, mood, required, risk_tier, verifiers, defaults) ==
    [touched_paths |-> touched, mood |-> mood, required_verifiers |-> required,
     risk_tier |-> risk_tier, config |-> Config(verifiers, defaults)]

\* A call of select_verifier_plan about to be made, and a second call whose
\* lists are the same lists in some order.
InitPlan ==
    /\ AtRest
    /\ EmptyStore
    /\ moodCall = NoMoodCall
    /\ NoComponents
    /\ planCall \in
           {[args |-> PlanArgs(t[1], m, rq[1], rt, v[1], d[1]),
             result |-> << >>,
             reordered |-> PlanArgs(t[2], m, rq[2], rt, v[2], d[2]),
             again |-> << >>] :
               t \in Reorderings(Lists(RawPaths)),
               rq \in Reorderings(Lists(RequiredIds)),
               m \in PlanMoods, rt \in RiskTiers,
               v \in VerifierLists \X VerifierLists,
               d \in Reorderings(DefaultLists)}

Call(a) == VerifierPlan(a.touched_paths, a.mood, a.required_verifiers, a.risk_tier, a.config)

CallSelectVerifierPlan ==
    /\ planCall.result = << >>
    /\ planCall' = [planCall EXCEPT !.result = <<Call(planCall.args)>>]
    /\ UNCHANGED << atRestVars, emptyStoreVars, moodCall, componentVars >>

CallSelectVerifierPlanReordered ==
    /\ planCall.result # << >>
    /\ planCall.again = << >>
    /\ planCall' = [planCall EXCEPT !.again = <<Call(planCall.reordered)>>]
    /\ UNCHANGED << atRestVars, emptyStoreVars, moodCall, componentVars >>

NextPlan ==
    \/ CallSelectVerifierPlan
    \/ CallSelectVerifierPlanReordered

SpecPlan == InitPlan /\ [][NextPlan]_vars

\* --------------------------------------------------------- verifier runner

\* Orchestrator, store, mood engine and planner all out of use: what the
\* behaviours of the remaining parts start from and leave alone.
Dormant ==
    /\ AtRest
    /\ EmptyStore
    /\ moodCall = NoMoodCall
    /\ planCall = NoPlanCall

dormantVars == << atRestVars, emptyStoreVars, moodCall, planCall >>

\* hashlib.sha256(...).hexdigest(), taken as free of collisions.
Sha256(data) == [sha256 |-> data]

\* A Python str or bytes value; its text is the list of its pieces.
Str(text) == [type |-> "str", text |-> text]
Bytes(text) == [type |-> "bytes", text |-> text]

\* What the verifier's process does: whether it outlives the timeout, the
\* code it exits with when it does not, and what it has written by then.
Executions ==
    [timed_out : BOOLEAN, return_code : {0, 1}, out : {<< >>, <<"o">>},
     err : {<< >>, <<"e">>}]

\* What TimeoutExpired carries as stdout / stderr: None when nothing was
\* read, else what was read, which the POSIX build of subprocess hands over
\* undecoded (partial_bytes) although text=True was asked for.
Partial(text, partial_bytes) ==
    IF text = << >> THEN Str(<< >>)
    ELSE IF partial_bytes THEN Bytes(text) ELSE Str(text)

Raised == [raised |-> TRUE]

\* LocalSandboxRunner.run
LocalSandboxRun(exec, partial_bytes) ==
    IF ~exec.timed_out
    THEN [raised |-> FALSE, return_code |-> exec.return_code, stdout |-> Str(exec.out),
          stderr |-> Str(exec.err), timed_out |-> FALSE]
    ELSE IF Partial(exec.err, partial_bytes).type = "bytes"
    THEN Raised                          \* bytes + "\nTIMEOUT": TypeError
    ELSE [raised |-> FALSE, return_code |-> 124,
          stdout |-> Partial(exec.out, partial_bytes),
          stderr |-> Str(exec.err \o <<"\nTIMEOUT">>), timed_out |-> TRUE]

\* What _analyze_with_baml returns: None, or the analyzer's verdict.
NoAnalysis == [status |-> "", summary |-> ""]
Analyses ==
    {NoAnalysis} \cup {[status |-> st, summary |-> "s"] :
                          st \in {"PASS", "FAIL", "BLOCKER", "UNSURE"}}

\* str.lower, on the verdicts in use.
Lower(st) ==
    CASE st = "PASS" -> "pass"
      [] st = "FAIL" -> "fail"
      [] st = "BLOCKER" -> "blocker"
      [] st = "UNSURE" -> "unsure"
      [] OTHER -> st

StatusOfReturnCode(return_code) == IF return_code = 0 THEN "pass" ELSE "fail"

\* The report of a run with the two timestamps left out.
ReportWithoutTimes(spec, return_code, artifact_hash, start, end) ==
    [verifier_id |-> spec.verifier_id, command |-> spec.command,
     return_code |-> return_code, artifact_hash |-> artifact_hash]

\* The `report` dict of run_async.
Report(spec, return_code, artifact_hash, start, end) ==
    [verifier_id |-> spec.verifier_id, command |-> spec.command,
     return_code |-> return_code, artifact_hash |-> artifact_hash,
     started_at |-> start, finished_at |-> end]

\* VerifierRunner.run_async on the sandbox result sb, with the clock read as
\* start and end and the analyzer answering analysis.
RunAsync(spec, sb, start, end, analysis, analyze_with_baml) ==
    IF sb.raised THEN Raised
    ELSE IF sb.stdout.type = "bytes" THEN Raised     \* "STDOUT\n" + bytes: TypeError
    ELSE
        LET raw_output == <<"STDOUT\n">> \o sb.stdout.text \o <<"\nSTDERR\n">>
                              \o sb.stderr.text
            artifact_hash == Sha256(raw_output)
            report_hash == Sha256(Report(spec, sb.return_code, artifact_hash, start, end))
            baml_analysis == IF analyze_with_baml THEN analysis ELSE NoAnalysis
            status ==
                IF baml_analysis # NoAnalysis
                   /\ Lower(baml_analysis.status) \in {"pass", "fail", "blocker"}
                THEN Lower(baml_analysis.status)
                ELSE StatusOfReturnCode(sb.return_code)
            attestation ==
                [verifier_id |-> spec.verifier_id, result |-> status,
                 artifact_hash |-> artifact_hash, report_hash |-> report_hash,
                 command |-> spec.command, started_at |-> start, finished_at |-> end,
                 verifier_version |-> "v1",
                 baml |-> IF baml_analysis = NoAnalysis THEN << >>
                          ELSE <<Sha256(baml_analysis), baml_analysis.summary>>]
        IN [raised |-> FALSE, verifier_id |-> spec.verifier_id, status |-> status,
            return_code |-> sb.return_code, artifact_hash |-> artifact_hash,
            report_hash |-> report_hash, attestation_hash |-> Sha256(attestation),
            baml_analysis |-> baml_analysis]

\* The files of the artifact store after a run, by what they hold:
\* write_bytes names each file by the digest of its content and leaves a file
\* that is there already as it is.
NoArtifacts == [logs |-> {}, reports |-> {}, attestations |-> {}, analyses |-> {}]
Stored(store, result) ==
    IF result.raised THEN store
    ELSE [logs |-> store.logs \cup {result.artifact_hash},
          reports |-> store.reports \cup {result.report_hash},
          attestations |-> store.attestations \cup {result.attestation_hash},
          analyses |-> store.analyses \cup
                           (IF result.baml_analysis = NoAnalysis THEN {}
                            ELSE {Sha256(result.baml_analysis)})]

\* What the wall clock may read.
Times == 1..MaxClock

TheVerifierSpec == [verifier_id |-> "V1", command |-> <<"pytest">>, timeout_seconds |-> 300]

\* A runner, and a verifier whose process behaves the same way each time it
\* is run.
InitVerifier ==
    /\ Dormant
    /\ sandboxOp = << >>
    /\ wsState = << >>
    /\ agentLoop = << >>
    /\ editCall = << >>
    /\ normCall = << >>
    /\ logCall = << >>
    /\ gitCall = << >>
    /\ verifierCall \in
           [spec : {TheVerifierSpec}, exec : Executions, partial_bytes : BOOLEAN,
            analyze_with_baml : BOOLEAN, first : {<< >>}, second : {<< >>},
            store : {NoArtifacts}]

\* One call of run_async, as the call record of the runner.
VerifierCallOf(v, start, end, analysis) ==
    LET sb == LocalSandboxRun(v.exec, v.partial_bytes)
    IN [sandbox |-> sb, started_at |-> start, finished_at |-> end,
        result |-> RunAsync(v.spec, sb, start, end, analysis, v.analyze_with_baml)]

VerifierRunAsync(start, end, analysis) ==
    /\ verifierCall.first = << >>
    /\ start <= end
    /\ LET c == VerifierCallOf(verifierCall, start, end, analysis)
       IN verifierCall' = [verifierCall EXCEPT !.first = <<c>>,
                                               !.store = Stored(@, c.result)]
    /\ UNCHANGED << dormantVars, sandboxOp, wsState, agentLoop, editCall, normCall, logCall, gitCall >>

VerifierRunAsyncAgain(start, end, analysis) ==
    /\ verifierCall.first # << >>
    /\ verifierCall.second = << >>
    /\ start <= end
    /\ LET c == VerifierCallOf(verifierCall, start, end, analysis)
       IN verifierCall' = [verifierCall EXCEPT !.second = <<c>>,
                                               !.store = Stored(@, c.result)]
    /\ UNCHANGED << dormantVars, sandboxOp, wsState, agentLoop, editCall, normCall, logCall, gitCall >>

NextVerifier ==
    \/ \E start, end \in Times, a \in Analyses : VerifierRunAsync(start, end, a)
    \/ \E start, end \in Times, a \in Analyses : VerifierRunAsyncAgain(start, end, a)

SpecVerifier == InitVerifier /\ [][NextVerifier]_vars

\* ----------------------------------------------------------- sandbox runner

\* The orchestrator's variables other than the runner's.
idleVars == << workItems, runs, syncState, gitVars, keepFlag, pc, cur, ctx, patches >>

\* One LocalSandboxRunner: its _handles, the calls made on it so far (the
\* ids each handle's checkpoint calls returned, the destroys of each handle)
\* and the last call: which, on what, and whether it raised.
InitSandbox ==
    /\ Dormant
    /\ verifierCall = << >>
    /\ wsState = << >>
    /\ agentLoop = << >>
    /\ editCall = << >>
    /\ normCall = << >>
    /\ logCall = << >>
    /\ gitCall = << >>
    /\ sandboxOp = [handles |-> {}, issued |-> << >>, destroys |-> << >>,
                    op |-> "", handle |-> 0, id |-> 0, raised |-> FALSE]

Handles == 1..sandboxesCreated

RunnerCreate ==
    /\ sandboxesCreated < MaxSandboxes
    /\ LET id == sandboxesCreated + 1
       IN /\ sandboxDirs' = SandboxCreate(sandboxDirs, id)
          /\ sandboxesCreated' = id
          /\ sandboxOp' = [handles |-> sandboxOp.handles \cup {id},
                           issued |-> sandboxOp.issued @@ (id :> {}),
                           destroys |-> sandboxOp.destroys @@ (id :> 0),
                           op |-> "create", handle |-> id, id |-> 0, raised |-> FALSE]
    /\ UNCHANGED << idleVars, checkpointsMade, emptyStoreVars, moodCall, planCall,
                    verifierCall, wsState, agentLoop, editCall, normCall, logCall, gitCall >>

RunnerCheckpoint(h) ==
    /\ h \in Handles
    /\ checkpointsMade < MaxCheckpoints
    /\ LET id == checkpointsMade + 1
           raises == SandboxCheckpointRaises(sandboxDirs, h)
       IN /\ checkpointsMade' = id
          /\ sandboxDirs' = IF raises THEN sandboxDirs
                            ELSE SandboxCheckpoint(sandboxDirs, h, id)
          /\ sandboxOp' = [sandboxOp EXCEPT
                              !.issued[h] = IF raises THEN @ ELSE @ \cup {id},
                              !.op = "checkpoint", !.handle = h, !.id = id,
                              !.raised = raises]
    /\ UNCHANGED << idleVars, sandboxesCreated, emptyStoreVars, moodCall, planCall,
                    verifierCall, wsState, agentLoop, editCall, normCall, logCall, gitCall >>

\* restore with any id: one a checkpoint call returned, or one none did.
RunnerRestore(h, id) ==
    /\ h \in Handles
    /\ sandboxOp' = [sandboxOp EXCEPT
                        !.op = "restore", !.handle = h, !.id = id,
                        !.raised = ~SandboxRestore(sandboxDirs, h, id)]
    /\ UNCHANGED << dormantVars, verifierCall, wsState, agentLoop, editCall, normCall, logCall, gitCall >>

\* run starts a process and keeps no record of it on the runner.
RunnerRun(h) ==
    /\ h \in Handles
    /\ sandboxOp' = [sandboxOp EXCEPT
                        !.op = "run", !.handle = h, !.id = 0, !.raised = FALSE]
    /\ UNCHANGED << dormantVars, verifierCall, wsState, agentLoop, editCall, normCall, logCall, gitCall >>

RunnerDestroy(h) ==
    /\ h \in Handles
    /\ sandboxOp.destroys[h] < MaxDestroys
    /\ LET raises == SandboxDestroyRaises(sandboxDirs, h)
       IN /\ sandboxDirs' = IF raises THEN sandboxDirs ELSE SandboxDestroy(sandboxDirs, h)
          /\ sandboxOp' = [sandboxOp EXCEPT
                              !.handles = IF raises THEN @ ELSE @ \ {h},
                              !.destroys[h] = @ + 1,
                              !.op = "destroy", !.handle = h, !.id = 0,
                              !.raised = raises]
    /\ UNCHANGED << idleVars, sandboxesCreated, checkpointsMade, emptyStoreVars,
                    moodCall, planCall, verifierCall, wsState, agentLoop, editCall, normCall, logCall, gitCall >>

NextSandbox ==
    \/ RunnerCreate
    \/ \E h \in 1..MaxSandboxes : RunnerCheckpoint(h)
    \/ \E h \in 1..MaxSandboxes, id \in 1..MaxCheckpoints + 1 : RunnerRestore(h, id)
    \/ \E h \in 1..MaxSandboxes : RunnerRun(h)
    \/ \E h \in 1..MaxSandboxes : RunnerDestroy(h)

SpecSandbox == InitSandbox /\ [][NextSandbox]_vars

\* ------------------------------------------------------------------ claims

Orchestrated == DOMAIN ctx

HasCommitRequest(r) == \E q \in commitRequests : q.run = r

\* The run's executor succeeded and its verification ran to the end with at
\* least one result that is not pass.
VerifierRejected(r) ==
    /\ ctx[r].success
    /\ Len(ctx[r].results) = Len(ctx[r].specs)
    /\ \E i \in 1..Len(ctx[r].results) : ctx[r].results[i] # "pass"

PromoteStep(s) == pc[s] = "promote" /\ pc'[s] = "finally"
RollbackStep(s) == pc[s] = "rollback" /\ pc'[s] = "finally"

\* C1: a run driven by run / run_async is created in status running, and its
\* recorded status changes only by running -> verifying, running -> failed,
\* verifying -> verified or verifying -> failed; so a verified or failed run's
\* status is never changed again by the orchestrator.
C1_Transitions ==
    { <<"running", "verifying">>, <<"running", "failed">>,
      <<"verifying", "verified">>, <<"verifying", "failed">> }

C1_StatusPath ==
    [][ /\ \A r \in DOMAIN ctx' \ DOMAIN ctx : runs'[r].status = "running"
        /\ \A r \in Orchestrated :
               runs'[r].status # runs[r].status
                   => <<runs[r].status, runs'[r].status>> \in C1_Transitions ]_vars

\* One run went running -> verifying -> verified and another running -> failed.
C1_Witness ==
    \E r1, r2 \in Orchestrated :
        /\ ctx[r1].exited /\ ctx[r1].success /\ runs[r1].status = "verified"
        /\ ctx[r2].exited /\ ~ctx[r2].success /\ runs[r2].status = "failed"

C3_PromotionSetsLastGoodOnSuccess ==
    /\ [](\A r \in Orchestrated :
             ctx[r].exited /\ runs[r].status = "verified" => HasCommitRequest(r))
    /\ [][ \A s \in Sessions : PromoteStep(s) =>
             LET r == cur[s]
                 k == ctx'[r].checkpoint
             IN /\ runs[r].status = "verified"
                /\ \E q \in commitRequests' : q.run = r
                /\ IF k.success /\ k.commit_sha # 0
                   THEN /\ GetLastGoodCheckpoint(syncState') = k.commit_sha
                        /\ head' = k.commit_sha
                   ELSE GetLastGoodCheckpoint(syncState')
                            = GetLastGoodCheckpoint(syncState) ]_vars

\* A verified run has exited whose checkpoint made a new commit, and that
\* commit is the last-good checkpoint.
C3_Witness ==
    \E r \in Orchestrated :
        /\ ctx[r].exited /\ runs[r].status = "verified" /\ HasCommitRequest(r)
        /\ ctx[r].checkpoint.created
        /\ GetLastGoodCheckpoint(syncState) = ctx[r].checkpoint.commit_sha

\* C3 as stated: every run that finishes verified has a commit request, its
\* repository checkpoint succeeded, and last_good_checkpoint is the SHA that
\* checkpoint returned.
C3_Original ==
    \A s \in Sessions :
        (pc[s] = "finally" /\ runs[cur[s]].status = "verified" /\ ctx[cur[s]].promoted)
            => /\ HasCommitRequest(cur[s])
               /\ ctx[cur[s]].checkpoint.success
               /\ GetLastGoodCheckpoint(syncState) = ctx[cur[s]].checkpoint.commit_sha

C5_ExecutorFailureRollsBack ==
    \A r \in Orchestrated :
        (ctx[r].exited /\ ctx[r].executed /\ ~ctx[r].success)
            => /\ runs[r].status = "failed"
               /\ runs[r].mood = "SKEPTICAL"
               /\ \E n \in runNotes :
                      /\ n.run = r /\ n.type = "note.status"
                      /\ n.body.status = "failed" /\ n.body.stage = "verify"
               /\ GetLastGoodCheckpoint(syncState) # 0 => Len(ctx[r].reverts) = 1
               /\ ctx[r].notified = 1

\* C6: the runner's destroy is never called twice for a run's sandbox and not
\* before the run exits; after the exit, on any path, it has been called once
\* and the sandbox is gone, unless the keep-flag is set: then it has not been
\* called and the sandbox is still there.
C6_DestroyedExactlyOnce ==
    \A r \in Orchestrated :
        /\ ctx[r].destroys <= 1
        /\ ~ctx[r].exited => ctx[r].destroys = 0
        /\ (ctx[r].exited /\ ctx[r].handle # 0)
               => /\ ctx[r].destroys = (IF keepFlag THEN 0 ELSE 1)
                  /\ (ctx[r].handle \in DOMAIN sandboxDirs) = keepFlag

\* Runs with a sandbox have exited on every path: executor failure, verifier
\* failure, verified, and an exception out of the verifier.
C6_Witness ==
    /\ \E r \in Orchestrated :
           ctx[r].exited /\ ctx[r].handle # 0 /\ ctx[r].raised /\ ctx[r].destroys = 1
    /\ \E r \in Orchestrated :
           /\ ctx[r].exited /\ ctx[r].handle # 0 /\ ~ctx[r].raised
           /\ ctx[r].destroys = 1

\* C7: once last_good_checkpoint has a value, a step changes it only if it is
\* the promotion of a run adjudicated verified.
C7_LastGoodChangesOnlyOnVerified ==
    [][ ( /\ GetLastGoodCheckpoint(syncState) # 0
          /\ GetLastGoodCheckpoint(syncState') # GetLastGoodCheckpoint(syncState) )
            => \E s \in Sessions :
                   PromoteStep(s) /\ runs[cur[s]].status = "verified" ]_vars

\* A later run started when HEAD had moved past the last-good checkpoint, was
\* rolled back and exited, and the pointer is still not HEAD's value before
\* the rollback.
C7_Witness ==
    \E r \in Orchestrated :
        /\ r > 1
        /\ ctx[r].exited /\ runs[r].status = "failed"
        /\ Len(ctx[r].reverts) = 1
        /\ GetLastGoodCheckpoint(syncState) # 0
        /\ GetLastGoodCheckpoint(syncState) < Len(commits)

C9_ExitedRunIsTerminal ==
    \A r \in Orchestrated : ctx[r].exited => runs[r].status \in TerminalStatuses

\* C10: whatever runs were created, by the orchestrator or by POST /run, each
\* work item has at most one run whose status is not verified or failed.
C10_OneActiveRunPerWorkItem ==
    \A w \in 1..Len(workItems) :
        Cardinality({r \in 1..Len(runs) :
                        /\ runs[r].work_item_id = w
                        /\ runs[r].status \notin TerminalStatuses}) <= 1

\* The order created < running < verifying < verified / failed.
StatusRank(status) ==
    CASE status = "created" -> 1
      [] status = "running" -> 2
      [] status = "verifying" -> 3
      [] status \in TerminalStatuses -> 4
      [] OTHER -> 0

\* C11: no step, of the orchestrator or of PATCH /run/{id}, moves a run's
\* status backwards in the order created < running < verifying <
\* verified / failed, and no step replaces a verified or failed status by
\* another status.
C11_StatusNeverMovesBack ==
    [][ \A r \in 1..Len(runs) :
            /\ StatusRank(runs'[r].status) >= StatusRank(runs[r].status)
            /\ runs[r].status \in TerminalStatuses
                   => runs'[r].status = runs[r].status ]_vars

\* The seqs of the rows of the events table.
SeqsOf(base, evs) == {base + i : i \in 1..Len(evs)}

\* C12: no step of the store (a write helper, a bare append, either rebuild)
\* changes or removes a row of the events table, and every row a step adds
\* has a seq greater than every seq handed out before.
C12_EventsNeverChangedOrRemoved ==
    [][ /\ \A q \in SeqsOf(seqBase, events) :
               /\ q \in SeqsOf(seqBase', events')
               /\ events'[q - seqBase'] = events[q - seqBase]
        /\ \A q \in SeqsOf(seqBase', events') \ SeqsOf(seqBase, events) :
               q > seqBase + Len(events) ]_vars

\* Every event of the log came from a write helper, none from a bare append.
AllViaHelpers == \A i \in 1..Len(events) : events[i].via # "append"

\* Table by table, db has the rows now in the store. A row of conversations
\* that start_conversation made and no event mentions is left out of the
\* comparison: it was never derived from the log.
SameAsTables(db) ==
    /\ db.files = files
    /\ db.messages = messages
    /\ db.tool_calls = toolCalls
    /\ db.ahdb_state = ahdbState
    /\ db.ahdb_deltas = ahdbDeltas
    /\ db.run_notes = runNotes
    /\ db.run_verifications = runVerifications
    /\ db.run_commit_requests = commitRequests
    /\ \A c \in DOMAIN db.conversations :
           c \in DOMAIN conversations /\ conversations[c] = db.conversations[c]

\* C13: in a store whose events were all appended by the write helpers,
\* rebuild_projection_from_events would leave every projection table with the
\* rows it has.
C13_RebuildLeavesTablesAsTheyWere ==
    AllViaHelpers => SameAsTables(RebuildProjectionFromEvents(events, seqBase))

\* files as the file events of the log, applied in seq order, leave it.
RECURSIVE FilesOf(_)
FilesOf(evs) ==
    IF evs = <<>> THEN << >>
    ELSE LET e == evs[Len(evs)]
             before == FilesOf(SubSeq(evs, 1, Len(evs) - 1))
         IN IF e.type = "file.write" THEN Upsert(before, e.path, e.hash)
            ELSE IF e.type = "file.delete" THEN Remove(before, e.path)
            ELSE before

\* C14: whatever appended it, helper or bare append, every event of the log
\* has its projection: a message its messages row, a tool call its
\* tool_calls row, an AHDB delta its ahdb_deltas row, a note of a run its
\* run_notes or run_commit_requests row, an attestation its
\* run_verifications row, and files is what the file events make it.
C14_TablesReflectEveryAppend ==
    /\ files = FilesOf(events)
    /\ \A i \in 1..Len(events) :
           LET e == events[i]
               seq == seqBase + i
           IN /\ e.type = "message" => MessageRow(e, seq) \in messages
              /\ e.type = "tool.call" => ToolCallRow(e, seq) \in toolCalls
              /\ e.type = "receipt.ahdb.delta"
                     => [event_seq |-> seq, delta |-> e.delta] \in ahdbDeltas
              /\ (e.type \in NoteTypes /\ e.run # 0)
                     => Row(e, seq) \in runNotes \cup commitRequests
              /\ (e.type = "receipt.verifier.attestations" /\ e.run # 0)
                     => Row(e, seq) \in runVerifications

\* The delta rows that carry slot k, and the last of them in seq order.
Carrying(rows, k) == {d \in rows : k \in DOMAIN d.delta}
LastCarrying(rows, k) ==
    CHOOSE d \in Carrying(rows, k) : \A o \in Carrying(rows, k) : o.event_seq <= d.event_seq

\* The receipt.ahdb.delta events of the log, as rows of ahdb_deltas.
DeltaEvents ==
    {[event_seq |-> seqBase + i, delta |-> events[i].delta] :
        i \in {j \in 1..Len(events) : events[j].type = "receipt.ahdb.delta"}}

\* C15: the AHDB state has exactly the slots some applied delta carries, each
\* with the value of the last applied delta, in seq order, that carries it;
\* when every delta of the log was logged by log_ahdb_delta the applied deltas
\* are the deltas of the log, and rebuild_projection_from_events then leaves
\* the state and the applied deltas as log_ahdb_delta built them.
C15_AhdbLastWriterWins ==
    /\ [](/\ DOMAIN ahdbState = {k \in Slots : Carrying(ahdbDeltas, k) # {}}
          /\ \A k \in DOMAIN ahdbState :
                 ahdbState[k] = LastCarrying(ahdbDeltas, k).delta[k]
          /\ ahdbDeltas \subseteq DeltaEvents
          /\ AllViaHelpers => ahdbDeltas = DeltaEvents)
    /\ [][ (AllViaHelpers /\ events' = events /\ seqBase' = seqBase)
               => (ahdbState' = ahdbState /\ ahdbDeltas' = ahdbDeltas) ]_vars

\* Two deltas carrying the slot assert with different values are in the log,
\* the later one appended bare; a rebuild has applied both, the state has the
\* later value, and the slot drive, carried by neither, is absent.
C15_Witness ==
    \E d1, d2 \in ahdbDeltas :
        /\ d1.event_seq < d2.event_seq
        /\ "assert" \in DOMAIN d1.delta /\ "assert" \in DOMAIN d2.delta
        /\ d1.delta["assert"] # d2.delta["assert"]
        /\ events[d1.event_seq - seqBase].via = "log_ahdb_delta"
        /\ events[d2.event_seq - seqBase].via = "append"
        /\ ahdbState["assert"] = d2.delta["assert"]
        /\ "drive" \notin DOMAIN ahdbState

\* The file events after run r's start_seq, and those of them r's own executor
\* wrote.
FileEventsSince(r) ==
    {i \in 1..Len(events) :
        seqBase + i > ctx[r].start_seq /\ events[i].type \in FileEventTypes}

OwnPaths(r) == {events[i].path : i \in {j \in FileEventsSince(r) : events[j].origin = r}}

\* C16: while a run of run_async is executing, every file event after its
\* start_seq, which is what its touched_paths will be collected from, was
\* written by its own executor; and once it has planned, its verifier specs
\* are the plan over the paths its own executor touched.
C16_TouchedPathsAreTheRunsOwn ==
    \A r \in Orchestrated :
        ctx[r].mode = "async" =>
            /\ ~ctx[r].executed => \A i \in FileEventsSince(r) : events[i].origin = r
            /\ ctx[r].executed =>
                   ctx[r].specs = BuildVerifierSpecs(SelectVerifierPlan(
                       OwnPaths(r), "CALM",
                       workItems[ctx[r].work_item].required_verifiers))

\* The call of transition_mood has returned.
Transitioned == moodCall.fn = "transition_mood" /\ moodCall.result # ""

\* C17: transition_mood returns CONTRITE on crash_detected; else PETTY on
\* suspected_reward_hack; else DEFERENTIAL on preference_missing; else, by the
\* current mood: CALM goes to CURIOUS on ambiguity_blocking or user_idk, else
\* to SKEPTICAL on verifiers_regress; SKEPTICAL goes to PARANOID on
\* hyperthesis_high, else to CALM on verified_and_bounded; PARANOID goes to
\* BOLD on mitigations_installed; CONTRITE goes to previous_mood (CALM when
\* there is none) on state_consistent and stays CONTRITE otherwise; in every
\* other case the current mood is returned.
C17_TransitionTable ==
    Transitioned =>
        LET c == moodCall.current
            i == moodCall.inputs
            out == moodCall.result
            free == ~i.crash_detected /\ ~i.suspected_reward_hack /\ ~i.preference_missing
            curious == c = "CALM" /\ (i.ambiguity_blocking \/ i.user_idk)
            skeptical == c = "CALM" /\ ~curious /\ i.verifiers_regress
            paranoid == c = "SKEPTICAL" /\ i.hyperthesis_high
            calm == c = "SKEPTICAL" /\ ~paranoid /\ i.verified_and_bounded
            bold == c = "PARANOID" /\ i.mitigations_installed
            contrite == c = "CONTRITE"
        IN /\ i.crash_detected => out = "CONTRITE"
           /\ (~i.crash_detected /\ i.suspected_reward_hack) => out = "PETTY"
           /\ (~i.crash_detected /\ ~i.suspected_reward_hack /\ i.preference_missing)
                  => out = "DEFERENTIAL"
           /\ (free /\ curious) => out = "CURIOUS"
           /\ (free /\ skeptical) => out = "SKEPTICAL"
           /\ (free /\ paranoid) => out = "PARANOID"
           /\ (free /\ calm) => out = "CALM"
           /\ (free /\ bold) => out = "BOLD"
           /\ (free /\ contrite /\ i.state_consistent /\ i.previous_mood # "")
                  => out = i.previous_mood
           /\ (free /\ contrite /\ i.state_consistent /\ i.previous_mood = "")
                  => out = "CALM"
           /\ (free /\ contrite /\ ~i.state_consistent) => out = "CONTRITE"
           /\ (free /\ ~curious /\ ~skeptical /\ ~paranoid /\ ~calm /\ ~bold /\ ~contrite)
                  => out = c

\* transition_mood took CONTRITE back to the previous mood CURIOUS, with
\* signals set that only the rules of other moods read.
C17_Witness ==
    /\ Transitioned
    /\ moodCall.current = "CONTRITE"
    /\ moodCall.inputs.state_consistent
    /\ moodCall.inputs.previous_mood = "CURIOUS"
    /\ moodCall.inputs.verifiers_regress
    /\ moodCall.inputs.hyperthesis_high
    /\ moodCall.result = "CURIOUS"

\* C18: select_initial_mood returns the mood of the first rule that matches:
\* crash_detected gives CONTRITE; no demo or no conjectures gives CURIOUS;
\* repeated_verifier_failures gives SKEPTICAL;
\* about_to_cross_privilege_boundary gives DEFERENTIAL when preference_missing
\* and PARANOID when not; otherwise CALM.
C18_InitialSelection ==
    (moodCall.fn = "select_initial_mood" /\ moodCall.result # "") =>
        LET i == moodCall.inputs
            out == moodCall.result
            r1 == i.crash_detected
            r2 == ~i.has_demo \/ ~i.conjectures_present
            r3 == i.repeated_verifier_failures
            r4 == i.about_to_cross_privilege_boundary
        IN /\ r1 => out = "CONTRITE"
           /\ (~r1 /\ r2) => out = "CURIOUS"
           /\ (~r1 /\ ~r2 /\ r3) => out = "SKEPTICAL"
           /\ (~r1 /\ ~r2 /\ ~r3 /\ r4 /\ i.preference_missing) => out = "DEFERENTIAL"
           /\ (~r1 /\ ~r2 /\ ~r3 /\ r4 /\ ~i.preference_missing) => out = "PARANOID"
           /\ (~r1 /\ ~r2 /\ ~r3 /\ ~r4) => out = "CALM"

\* select_initial_mood answered CURIOUS for a record with no demo although
\* the later rules, verifier failures and the privilege boundary, match too.
C18_Witness ==
    /\ moodCall.fn = "select_initial_mood"
    /\ ~moodCall.inputs.crash_detected
    /\ ~moodCall.inputs.has_demo
    /\ moodCall.inputs.repeated_verifier_failures
    /\ moodCall.inputs.about_to_cross_privilege_boundary
    /\ moodCall.result = "CURIOUS"

\* The moods that have no rule of their own in transition_mood.
RulelessMoods == {"CURIOUS", "BOLD", "PETTY", "DEFERENTIAL"}

\* C19, as amended: handing transition_mood its own result with the same
\* signal record returns that result again whenever a preemption signal
\* (crash_detected, suspected_reward_hack, preference_missing) is set or the
\* result is one of CURIOUS, BOLD, PETTY, DEFERENTIAL; and when the second
\* result differs from the first, the first was CALM, SKEPTICAL, PARANOID or
\* CONTRITE reached with no preemption signal set.
C19_IdempotentWhenPreemptedOrRuleless ==
    (Transitioned /\ moodCall.again # "") =>
        /\ (Preemption(moodCall.inputs) # "" \/ moodCall.result \in RulelessMoods)
               => moodCall.again = moodCall.result
        /\ moodCall.again # moodCall.result
               => /\ Preemption(moodCall.inputs) = ""
                  /\ moodCall.result \in Moods \ RulelessMoods

\* With crash_detected set, CALM under user_idk went to CONTRITE and a second
\* call with the same record stayed there.
C19_Witness ==
    /\ Transitioned
    /\ moodCall.current = "CALM"
    /\ moodCall.inputs.crash_detected
    /\ moodCall.inputs.user_idk
    /\ moodCall.result = "CONTRITE"
    /\ moodCall.again = "CONTRITE"

\* C19 as stated: for every mood c and signal record i,
\* transition_mood(transition_mood(c, i), i) = transition_mood(c, i).
C19_Original ==
    (Transitioned /\ moodCall.again # "") => moodCall.again = moodCall.result

\* Both calls of the planner have returned.
PlannedTwice == planCall.result # << >> /\ planCall.again # << >>

\* C20: two calls of select_verifier_plan whose touched_paths,
\* required_verifiers, catalog entries and mood-default lists differ only in
\* order return the same verifier_ids, unknown_required, inputs_hash and
\* plan_id; and the plan_id of a plan is determined by its inputs_hash alone.
C20_PlanOrderIndependent ==
    /\ PlannedTwice =>
           /\ planCall.again[1].verifier_ids = planCall.result[1].verifier_ids
           /\ planCall.again[1].unknown_required = planCall.result[1].unknown_required
           /\ planCall.again[1].inputs_hash = planCall.result[1].inputs_hash
           /\ planCall.again[1].plan_id = planCall.result[1].plan_id
    /\ planCall.result # << >> =>
           planCall.result[1].plan_id = PlanId(planCall.result[1].inputs_hash)

\* Two calls returned whose touched paths, required verifiers, catalog and
\* mood defaults are each in a different order, with V1 in the plan by its
\* scope alone and an unknown required id reported.
C20_Witness ==
    /\ PlannedTwice
    /\ planCall.args.touched_paths # planCall.reordered.touched_paths
    /\ planCall.args.required_verifiers # planCall.reordered.required_verifiers
    /\ planCall.args.config.verifiers # planCall.reordered.config.verifiers
    /\ planCall.args.config.mood_defaults # planCall.reordered.config.mood_defaults
    /\ planCall.args.mood = "calm"
    /\ "V1" \notin Range(planCall.args.required_verifiers)
    /\ planCall.result[1].verifier_ids = <<"V1", "V2">>
    /\ planCall.result[1].unknown_required = <<"V9">>

\* The calls of run_async that have come back, returned or raised.
VerifierCalls == Range(verifierCall.first) \cup Range(verifierCall.second)

\* The analyzer decided the status of the call.
AnalyzerOverride(c) ==
    /\ c.result.baml_analysis # NoAnalysis
    /\ Lower(c.result.baml_analysis.status) \in {"pass", "fail", "blocker"}

\* C21: a verifier execution that exceeds its timeout has a result with
\* return_code 124, timed_out true and status fail; one that does not, and
\* whose status no analyzer decides, has a result with status pass exactly
\* when return_code is 0 and fail in every other case.
C21_TimeoutAndStatus ==
    \A c \in VerifierCalls :
        /\ verifierCall.exec.timed_out =>
               /\ ~c.sandbox.raised
               /\ ~c.result.raised
               /\ c.sandbox.timed_out
               /\ c.result.return_code = 124
               /\ c.result.status = "fail"
        /\ ~verifierCall.exec.timed_out =>
               /\ ~c.result.raised
               /\ ~AnalyzerOverride(c) =>
                      /\ c.result.status = "pass" <=> c.result.return_code = 0
                      /\ c.result.status = "fail" <=> c.result.return_code # 0

\* Both calls of run_async returned a result.
RanTwice ==
    /\ verifierCall.first # << >>
    /\ verifierCall.second # << >>
    /\ ~verifierCall.first[1].result.raised
    /\ ~verifierCall.second[1].result.raised

\* C22, as amended: two runs of one verifier spec with the same return code,
\* stdout and stderr have the same artifact_hash; their report_hash is the
\* same exactly when both runs read the same started_at and finished_at off
\* the clock; and their attestation_hash is the same exactly when the
\* report_hash, the status and what the analyzer returned are the same.
C22_HashesFollowContentAndClock ==
    RanTwice =>
        LET a == verifierCall.first[1].result
            b == verifierCall.second[1].result
            ra == verifierCall.first[1]
            rb == verifierCall.second[1]
        IN /\ a.artifact_hash = b.artifact_hash
           /\ a.report_hash = b.report_hash
                  <=> (ra.started_at = rb.started_at /\ ra.finished_at = rb.finished_at)
           /\ a.attestation_hash = b.attestation_hash
                  <=> /\ a.report_hash = b.report_hash
                      /\ a.status = b.status
                      /\ a.baml_analysis = b.baml_analysis

\* Two runs with the same output and no analyzer, the second started and
\* finished later on the clock: the same log, a different report and a
\* different attestation.
C22_Witness ==
    /\ RanTwice
    /\ ~verifierCall.analyze_with_baml
    /\ verifierCall.first[1].result.return_code = 0
    /\ verifierCall.first[1].result.artifact_hash = verifierCall.second[1].result.artifact_hash
    /\ verifierCall.first[1].result.report_hash # verifierCall.second[1].result.report_hash
    /\ verifierCall.first[1].result.attestation_hash
           # verifierCall.second[1].result.attestation_hash
    /\ Cardinality(verifierCall.store.logs) = 1
    /\ Cardinality(verifierCall.store.reports) = 2

\* C22 as stated: running the same verifier spec twice with identical return
\* code, stdout and stderr yields identical artifact_hash, report_hash and
\* attestation_hash.
C22_Original ==
    RanTwice =>
        /\ verifierCall.first[1].result.artifact_hash
               = verifierCall.second[1].result.artifact_hash
        /\ verifierCall.first[1].result.report_hash
               = verifierCall.second[1].result.report_hash
        /\ verifierCall.first[1].result.attestation_hash
               = verifierCall.second[1].result.attestation_hash

\* The step is a destroy of handle h.
DestroyStep(h) ==
    /\ sandboxOp'.op = "destroy"
    /\ sandboxOp'.handle = h
    /\ sandboxOp'.destroys[h] = sandboxOp.destroys[h] + 1

C24_RestoreOnlyOwnCheckpoints ==
    [][(sandboxOp'.op = "restore" /\ sandboxOp'.handle \in Handles) =>
          LET h == sandboxOp'.handle
              own == sandboxOp'.id \in sandboxOp'.issued[h]
          IN /\ ~sandboxOp'.raised => own
             /\ ~own => sandboxOp'.raised
             /\ sandboxDirs' = sandboxDirs
             /\ sandboxOp'.handles = sandboxOp.handles
             /\ sandboxOp'.issued = sandboxOp.issued]_vars

\* A restore on sandbox 2 of a checkpoint that sandbox 1 took, and still
\* holds, raised.
C24_Witness ==
    /\ sandboxOp.op = "restore"
    /\ sandboxOp.handle = 2
    /\ sandboxOp.raised
    /\ 1 \in DOMAIN sandboxDirs
    /\ 2 \in DOMAIN sandboxDirs
    /\ sandboxOp.id \in sandboxDirs[1]

\* The step provisions the sandbox of a new run of session s.
ProvisionStep(s) == pc[s] = "idle" /\ pc'[s] = "executing"

\* The events the step appended.
Appended == {events'[i] : i \in (Len(events) + 1)..Len(events')}

\* The sandbox checkpoint the per-user pointer names is held by no sandbox:
\* the sandbox that took it has been destroyed.
PointerSandboxDestroyed ==
    /\ syncState.sandbox_checkpoint # 0
    /\ \A h \in DOMAIN sandboxDirs : syncState.sandbox_checkpoint \notin sandboxDirs[h]

\* C25: when the sandbox of a run is provisioned while the per-user pointer
\* names the sandbox checkpoint of an earlier verified run whose sandbox has
\* been destroyed, the restore of that checkpoint attempted on the new
\* sandbox succeeds.
C25_CheckpointOutlivesRun ==
    [][\A s \in Sessions :
          (ProvisionStep(s) /\ PointerSandboxDestroyed) =>
              \A e \in Appended :
                  (e.type = "note.observation" /\ e.body.event = "sandbox.restore")
                      => e.body.ok]_vars

\* The runs a WebSocket session has driven through run_async.
SessionRuns(s) == {r \in Orchestrated : ctx[r].session = s /\ ctx[r].mode = "async"}

\* The step is session s admitting a prompt: its work item and its run are
\* created.
AdmitStep(s) ==
    /\ pc[s] = "idle"
    /\ pc'[s] = "executing"
    /\ ctx'[cur'[s]].mode = "async"

\* C26: within one WebSocket session prompts are handled one at a time and in
\* arrival order: a session never has two runs in progress, and when the work
\* item and the run of a prompt are created every earlier run of the session
\* is over, with status verified or failed, and is an older run on an older
\* work item.
C26_SessionSerial ==
    /\ [](\A s \in Sessions :
             Cardinality({r \in SessionRuns(s) : ~ctx[r].exited}) <= 1)
    /\ [][\A s \in Sessions :
             AdmitStep(s) =>
                 \A r \in SessionRuns(s) :
                     /\ ctx[r].exited
                     /\ runs[r].status \in TerminalStatuses
                     /\ r < cur'[s]
                     /\ ctx[r].work_item < ctx'[cur'[s]].work_item]_vars

\* A session drives its second run, the first being over.
C26_Witness ==
    \E s \in Sessions : \E r1 \in SessionRuns(s) :
        /\ ctx[r1].exited
        /\ runs[r1].status \in TerminalStatuses
        /\ cur[s] \in SessionRuns(s)
        /\ r1 < cur[s]

\* C29: a run whose session task was cancelled while it was in progress ends
\* with status failed and a note of the run that says so.
C29_CancelledRunFails ==
    \A r \in Orchestrated :
        (ctx[r].cancelled /\ ctx[r].exited) =>
            /\ runs[r].status = "failed"
            /\ \E i \in 1..Len(events) :
                   /\ events[i].run = r
                   /\ events[i].type = "note.status"
                   /\ events[i].body.status = "failed"

\* --------------------------------------------------------- prompt admission

\* WS_MAX_PROMPT_CHARS, WS_RATE_WINDOW_SECONDS and WS_MAX_PROMPTS_PER_WINDOW
\* are read from the environment when main.py is imported (defaults 20000,
\* 10 and 5); small settings of them here.
MAX_PROMPT_CHARS == 2
WS_RATE_WINDOW_SECONDS == 2
WS_MAX_PROMPTS_PER_WINDOW == 2

\* The frames one session receives in one behaviour.
MaxPrompts == 5

\* A prompt is told apart by its length only: none, the longest that fits, one
\* too long.
PromptLengths == {0, MAX_PROMPT_CHARS, MAX_PROMPT_CHARS + 1}

\* The time.monotonic() seconds between one rate check and the next frame.
Delays == {0, 1, WS_RATE_WINDOW_SECONDS + 1}

\* How run_async ends for an admitted prompt: it returns the run verified or
\* failed, or it raises and leaves the run as it stood.
RunOutcomes == {"verified", "failed", "running"}

\* `while recent_prompts and now - recent_prompts[0] > WS_RATE_WINDOW_SECONDS:
\* recent_prompts.popleft()`
RECURSIVE DropExpired(_, _)
DropExpired(recent_prompts, now) ==
    IF recent_prompts # << >> /\ now - Head(recent_prompts) > WS_RATE_WINDOW_SECONDS
    THEN DropExpired(Tail(recent_prompts), now)
    ELSE recent_prompts

\* A rate check that lets one prompt more through.
RateLimitedLate(recent_prompts) == Len(recent_prompts) > WS_MAX_PROMPTS_PER_WINDOW

\* `len(recent_prompts) >= WS_MAX_PROMPTS_PER_WINDOW`
RateLimited(recent_prompts) == Len(recent_prompts) >= WS_MAX_PROMPTS_PER_WINDOW

\* The verdict of the handler on a prompt of the given length: "" admits it.
Rejection(length, recent_prompts, now) ==
    IF length = 0 THEN "No prompt provided"
    ELSE IF length > MAX_PROMPT_CHARS THEN "Prompt too large"
    ELSE IF RateLimited(DropExpired(recent_prompts, now)) THEN "Rate limit exceeded"
    ELSE ""

\* The accepted connection: an empty deque, no frame received or sent.
\* `admitted` keeps the time of every prompt let through.
InitPrompts ==
    /\ Dormant
    /\ verifierCall = << >>
    /\ sandboxOp = << >>
    /\ agentLoop = << >>
    /\ editCall = << >>
    /\ normCall = << >>
    /\ logCall = << >>
    /\ gitCall = << >>
    /\ wsState = [open |-> TRUE, now |-> 0, recent_prompts |-> << >>, received |-> 0,
                  prompt |-> 0, sent |-> << >>, admitted |-> << >>]

promptVars == << syncState, gitVars, sandboxVars, keepFlag, pc, cur, ctx, seqBase, patches,
                 moodCall, planCall, verifierCall, sandboxOp, agentLoop, editCall, normCall, logCall, gitCall >>

\* One turn of the handler's loop on a frame whose prompt has the given
\* length, the rate check reading the clock at `now`: a rejected prompt gets an
\* error frame and the loop continues; an admitted one gets its work item and
\* its run, whose notes run_async writes, then the work item's status and a
\* verification frame, unless run_async raised, which ends the handler.
ReceivePrompt(length, delay, outcome) ==
    /\ wsState # << >>
    /\ wsState.open
    /\ wsState.received < MaxPrompts
    /\ LET now == wsState.now + delay
           verdict == Rejection(length, wsState.recent_prompts, now)
           checked == length # 0 /\ length <= MAX_PROMPT_CHARS
           kept == IF checked THEN DropExpired(wsState.recent_prompts, now)
                   ELSE wsState.recent_prompts
           w == Len(workItems) + 1
           r == Len(runs) + 1
           returned == outcome \in TerminalStatuses
       IN IF verdict # ""
          THEN /\ outcome = "verified"
               /\ wsState' = [wsState EXCEPT !.now = now, !.recent_prompts = kept,
                                              !.received = @ + 1, !.prompt = length,
                                              !.sent = Append(@, [type |-> "error",
                                                                  content |-> verdict])]
               /\ UNCHANGED << events, workItems, runs, files, projVars, runNotes,
                               runVerifications, commitRequests >>
          ELSE /\ wsState' = [wsState EXCEPT
                                  !.now = now,
                                  !.recent_prompts = Append(kept, now),
                                  !.received = @ + 1,
                                  !.prompt = length,
                                  !.admitted = Append(@, now),
                                  !.open = returned,
                                  !.sent = IF returned
                                           THEN Append(@, [type |-> "verification",
                                                           content |-> outcome])
                                           ELSE @]
               /\ workItems' = Append(workItems,
                      [status |-> IF outcome = "verified" THEN "done"
                                  ELSE IF outcome = "failed" THEN "failed"
                                  ELSE "queued",
                       required_verifiers |-> {}])
               /\ runs' = Append(runs, [work_item_id |-> w, status |-> outcome,
                                        mood |-> "CALM"])
               /\ Store(<<StatusNote(r, "running", "execute")>>
                        \o (IF outcome = "running" THEN <<>>
                            ELSE <<StatusNote(r, outcome, "verify")>>))
    /\ UNCHANGED promptVars

NextPrompts ==
    \E length \in PromptLengths, delay \in Delays, outcome \in RunOutcomes :
        ReceivePrompt(length, delay, outcome)

SpecPrompts == InitPrompts /\ [][NextPrompts]_vars

\* The step is the handler's turn on one frame.
PromptStep == wsState # << >> /\ wsState'.received = wsState.received + 1

\* The step turned its prompt away.
RejectStep == PromptStep /\ wsState'.admitted = wsState.admitted

\* The prompts among those admitted so far that were admitted at second t or
\* in the WS_RATE_WINDOW_SECONDS before.
AdmittedInWindow(admitted, t) ==
    {i \in DOMAIN admitted :
        admitted[i] <= t /\ t - admitted[i] <= WS_RATE_WINDOW_SECONDS}

\* The prompt of the step is empty, too long, or arrives when the window that
\* ends with it already holds WS_MAX_PROMPTS_PER_WINDOW admitted prompts.
Inadmissible ==
    \/ wsState'.prompt = 0
    \/ wsState'.prompt > MAX_PROMPT_CHARS
    \/ Cardinality(AdmittedInWindow(wsState.admitted, wsState'.now))
           >= WS_MAX_PROMPTS_PER_WINDOW

\* C27: a prompt that is empty, longer than the size cap or beyond the
\* per-window count cap is turned away: it is answered with exactly one error
\* frame, creates no work item, run or event and leaves the session open; and
\* no window of WS_RATE_WINDOW_SECONDS seconds holds more than
\* WS_MAX_PROMPTS_PER_WINDOW admitted prompts.
C27_RejectedPromptsLeaveNoTrace ==
    /\ [][(PromptStep /\ Inadmissible) => RejectStep]_vars
    /\ [][RejectStep =>
             /\ Len(wsState'.sent) = Len(wsState.sent) + 1
             /\ wsState'.sent[Len(wsState'.sent)].type = "error"
             /\ UNCHANGED << events, workItems, runs, runNotes >>
             /\ wsState'.open]_vars
    /\ [](wsState # << >> =>
             \A t \in 0..wsState.now :
                 Cardinality(AdmittedInWindow(wsState.admitted, t))
                     <= WS_MAX_PROMPTS_PER_WINDOW)

\* The session turned away an empty prompt, one too long and one over the
\* rate, admitted a prompt in between, and is still open.
C27_Witness ==
    /\ wsState # << >>
    /\ wsState.open
    /\ \A c \in {"No prompt provided", "Prompt too large", "Rate limit exceeded"} :
           \E i \in DOMAIN wsState.sent : wsState.sent[i].content = c
    /\ Len(wsState.admitted) = WS_MAX_PROMPTS_PER_WINDOW
    /\ Len(workItems) = WS_MAX_PROMPTS_PER_WINDOW

\* --------------------------------------------------------------- agent loops

\* `max_turns = 20` of AssociateAgent.run.
max_turns == 20

\* The LLM calls of one behaviour: the loop without a budget is followed this
\* far.
MaxLlmCalls == 22

AgentLoops == {"RalphLoop", "AssociateAgent"}

\* What client.messages.create does on one call, as far as the loops look at
\* it: it raises, or it returns a reply with or without a tool_use block and
\* with a stop reason; for AssociateAgent the tool may be submit_result, with
\* an input that AssociateResult accepts or rejects.
Replies ==
    [raises : {TRUE}, tool : {""}, stop_reason : {""}]
    \cup [raises : {FALSE}, tool : {"", "tool", "submit_result", "submit_invalid"},
          stop_reason : {"end_turn", "tool_use"}]

\* A prompt handed to RalphLoop.process, or a task handed to
\* AssociateAgent.run: no call made yet.
InitAgent ==
    /\ Dormant
    /\ verifierCall = << >>
    /\ sandboxOp = << >>
    /\ wsState = << >>
    /\ editCall = << >>
    /\ normCall = << >>
    /\ logCall = << >>
    /\ gitCall = << >>
    /\ agentLoop \in [loop : AgentLoops, calls : {0}, tools : {0}, running : {TRUE},
                       outcome : {""}]

agentVars == << dormantVars, verifierCall, sandboxOp, wsState, editCall, normCall, logCall, gitCall >>

\* One pass of `while True` in RalphLoop.process: the LLM call, the tool the
\* reply asks for, and the two exits, on a reply without tool_use and on
\* stop_reason end_turn. An exception ends the generator with an error frame.
RalphTurn(reply) ==
    /\ agentLoop.loop = "RalphLoop"
    /\ agentLoop.running
    /\ agentLoop.calls < MaxLlmCalls
    /\ reply.tool \in {"", "tool"}
    /\ LET has_tool_use == reply.tool # ""
           stops == reply.raises \/ ~has_tool_use \/ reply.stop_reason = "end_turn"
       IN agentLoop' = [agentLoop EXCEPT
                           !.calls = @ + 1,
                           !.tools = IF has_tool_use THEN @ + 1 ELSE @,
                           !.running = ~stops,
                           !.outcome = IF reply.raises THEN "error"
                                       ELSE IF stops THEN "done" ELSE ""]
    /\ UNCHANGED agentVars

\* One pass of `while current_turn < max_turns` in AssociateAgent.run: the LLM
\* call and the reply's tool; only a submit_result that validates returns. An
\* exception of the LLM call leaves run() as it is.
AssociateTurn(reply) ==
    /\ agentLoop.loop = "AssociateAgent"
    /\ agentLoop.running
    /\ agentLoop.calls < max_turns
    /\ agentLoop' = [agentLoop EXCEPT
                        !.calls = @ + 1,
                        !.tools = IF reply.tool = "tool" THEN @ + 1 ELSE @,
                        !.running = ~(reply.raises \/ reply.tool = "submit_result"),
                        !.outcome = IF reply.raises THEN "raised"
                                    ELSE IF reply.tool = "submit_result" THEN "submitted"
                                    ELSE ""]
    /\ UNCHANGED agentVars

\* AssociateAgent.run after its loop: "Associate ran out of turns."
AssociateOutOfTurns ==
    /\ agentLoop.loop = "AssociateAgent"
    /\ agentLoop.running
    /\ agentLoop.calls >= max_turns
    /\ agentLoop' = [agentLoop EXCEPT !.running = FALSE, !.outcome = "failed"]
    /\ UNCHANGED agentVars

NextAgent ==
    \/ \E reply \in Replies : RalphTurn(reply)
    \/ \E reply \in Replies : AssociateTurn(reply)
    \/ AssociateOutOfTurns

SpecAgent == InitAgent /\ [][NextAgent]_vars

\* C28: whatever the LLM replies, an agent loop makes at most max_turns LLM
\* calls for one prompt, and a loop that was asked for a tool on every one of
\* max_turns calls and is over ended with a failed outcome.
C28_TurnBudget ==
    agentLoop # << >> =>
        /\ agentLoop.calls <= max_turns
        /\ (agentLoop.tools = max_turns /\ ~agentLoop.running)
               => agentLoop.outcome = "failed"

\* ------------------------------------------------------------------ edit_file

\* The longest file, the longest old_text or new_text, the most edits of one
\* call.
MaxFileLen == 2
MaxTextLen == 2
MaxEdits == 1

\* The characters of files and edits: a letter, carriage return, line feed.
Chars == {"a", "CR", "LF"}

Texts(n) == UNION {[1..k -> Chars] : k \in 0..n}

\* Path.read_text(): the bytes decoded with universal newlines, "\r\n" and a
\* lone "\r" both read as "\n".
RECURSIVE ReadText(_)
ReadText(bytes) ==
    IF bytes = << >> THEN << >>
    ELSE IF Head(bytes) = "CR"
    THEN IF Len(bytes) >= 2 /\ bytes[2] = "LF"
         THEN <<"LF">> \o ReadText(SubSeq(bytes, 3, Len(bytes)))
         ELSE <<"LF">> \o ReadText(Tail(bytes))
    ELSE <<Head(bytes)>> \o ReadText(Tail(bytes))

\* Path.write_text(content) on POSIX: "\n" is written as os.linesep, which is
\* "\n", and "\r" as it is.
WriteText(content) == content

\* `old_text in content`
Contains(content, old_text) ==
    \E i \in 0..(Len(content) - Len(old_text)) :
        SubSeq(content, i + 1, i + Len(old_text)) = old_text

\* str.replace with an empty old_text: new_text before every character and at
\* the end.
RECURSIVE Interleave(_, _)
Interleave(content, new_text) ==
    IF content = << >> THEN new_text
    ELSE new_text \o <<Head(content)>> \o Interleave(Tail(content), new_text)

\* content.replace(old_text, new_text): every occurrence, left to right,
\* without overlap.
RECURSIVE Replace(_, _, _)
Replace(content, old_text, new_text) ==
    IF old_text = << >> THEN Interleave(content, new_text)
    ELSE IF Len(content) < Len(old_text) THEN content
    ELSE IF SubSeq(content, 1, Len(old_text)) = old_text
    THEN new_text \o Replace(SubSeq(content, Len(old_text) + 1, Len(content)),
                             old_text, new_text)
    ELSE <<Head(content)>> \o Replace(Tail(content), old_text, new_text)

\* The loop over edits: an edit whose old_text is absent is skipped.
RECURSIVE ApplyEdits(_, _)
ApplyEdits(content, edits) ==
    IF edits = << >> THEN content
    ELSE ApplyEdits(IF Contains(content, Head(edits).old_text)
                    THEN Replace(content, Head(edits).old_text, Head(edits).new_text)
                    ELSE content,
                    Tail(edits))

Edits == UNION {[1..k -> [old_text : Texts(MaxTextLen), new_text : Texts(MaxTextLen)]]
                   : k \in 0..MaxEdits}

TheEditedPath == <<"src", "a.txt">>

\* A call of edit_file about to be made: the file (if it exists) and its
\* bytes, the edits and dry_run; an empty file history and an empty log.
InitEdit ==
    /\ Dormant
    /\ verifierCall = << >>
    /\ sandboxOp = << >>
    /\ wsState = << >>
    /\ agentLoop = << >>
    /\ normCall = << >>
    /\ logCall = << >>
    /\ gitCall = << >>
    /\ editCall \in [exists : BOOLEAN, disk : Texts(MaxFileLen), before : {<< >>},
                      edits : Edits, dry_run : BOOLEAN, history : {<< >>},
                      returned : {""}, modified : {FALSE}]
    /\ editCall.exists \/ editCall.disk = << >>

editVars == << atRestVars, seqBase, moodCall, planCall, verifierCall, sandboxOp, wsState,
               agentLoop, normCall, logCall, gitCall >>

\* AgentTools.edit_file
EditFile ==
    /\ editCall # << >>
    /\ editCall.returned = ""
    /\ LET original == ReadText(editCall.disk)
           content == ApplyEdits(original, editCall.edits)
           writes == editCall.exists /\ ~editCall.dry_run /\ content # original
       IN /\ editCall' = [editCall EXCEPT
                  !.before = editCall.disk,
                  !.disk = IF writes THEN WriteText(content) ELSE @,
                  !.history = IF writes THEN Append(@, editCall.disk) ELSE @,
                  !.returned = IF ~editCall.exists THEN "error"
                               ELSE IF editCall.dry_run THEN "dry_run" ELSE "success",
                  !.modified = editCall.exists /\ content # original]
          /\ IF writes
             THEN Store(<<FileWrite(TheEditedPath, 0)>>)
             ELSE UNCHANGED << events, files, projVars, runNotes, runVerifications,
                               commitRequests >>
    /\ UNCHANGED editVars

NextEdit == EditFile

SpecEdit == InitEdit /\ [][NextEdit]_vars

\* The edits change the content of the file: the call is not a dry run and
\* the edited text differs from the text of the file.
EditsChangeContent ==
    /\ editCall.exists
    /\ ~editCall.dry_run
    /\ ApplyEdits(ReadText(editCall.before), editCall.edits) # ReadText(editCall.before)

FileWriteAppended == \E i \in 1..Len(events) : events[i].type = "file.write"

\* C30: once edit_file has returned, the bytes of the file have changed
\* exactly when dry_run was false and the edits change the content, and a
\* file.write event was appended in exactly the same calls; after a dry run
\* the bytes, the log and the file history are as they were.
C30_EditWritesExactlyOnChange ==
    (editCall # << >> /\ editCall.returned # "") =>
        /\ (editCall.disk # editCall.before) <=> EditsChangeContent
        /\ FileWriteAppended <=> EditsChangeContent
        /\ editCall.dry_run =>
               /\ editCall.disk = editCall.before
               /\ events = << >>
               /\ editCall.history = << >>

\* ------------------------------------------------------- event type contract

\* The longest event type handed to normalize_event_type, in pieces.
MaxPieces == 4

\* An event type is a string of pieces: a word in upper, lower or mixed case,
\* or one of the characters the function looks for ("_", "/", ".", " ").
Word(w, case) == [w |-> w, case |-> case]
Char(c) == [w |-> c, case |-> "char"]

U(w) == <<Word(w, "upper")>>
L(w) == <<Word(w, "lower")>>
Underscore == <<Char("_")>>
Slash == <<Char("/")>>
Dot == <<Char(".")>>
Space == <<Char(" ")>>

\* str.upper() and str.lower()
UpperCase(str) ==
    [i \in DOMAIN str |-> IF str[i].case = "char" THEN str[i]
                          ELSE Word(str[i].w, "upper")]
LowerCase(str) ==
    [i \in DOMAIN str |-> IF str[i].case = "char" THEN str[i]
                          ELSE Word(str[i].w, "lower")]

\* str.strip()
RECURSIVE StripLeft(_)
StripLeft(str) ==
    IF str # << >> /\ <<Head(str)>> = Space THEN StripLeft(Tail(str)) ELSE str

RECURSIVE StripRight(_)
StripRight(str) ==
    IF str # << >> /\ <<str[Len(str)]>> = Space
    THEN StripRight(SubSeq(str, 1, Len(str) - 1))
    ELSE str

Strip(str) == StripRight(StripLeft(str))

\* str.replace(old, new) for one character
ReplaceChar(str, old, new) ==
    [i \in DOMAIN str |-> IF <<str[i]>> = old THEN new[1] ELSE str[i]]

\* _normalize_segments without its lower(): the case of the input is kept.
NormalizeSegmentsKeepingCase(value) ==
    ReplaceChar(ReplaceChar(Strip(value), Slash, Dot), Underscore, Dot)

\* _normalize_segments
NormalizeSegments(value) ==
    ReplaceChar(ReplaceChar(LowerCase(Strip(value)), Slash, Dot), Underscore, Dot)

\* _LEGACY_EVENT_TYPE_MAP, as the set of its (key, value) pairs.
LEGACY_EVENT_TYPE_MAP ==
    {<<U("file") \o Underscore \o U("write"), L("file") \o Dot \o L("write")>>,
     <<U("file") \o Underscore \o U("delete"), L("file") \o Dot \o L("delete")>>,
     <<U("file") \o Underscore \o U("move"), L("file") \o Dot \o L("move")>>,
     <<U("conversation") \o Underscore \o U("message"), L("message")>>,
     <<U("tool") \o Underscore \o U("call"), L("tool") \o Dot \o L("call")>>,
     <<U("tool") \o Underscore \o U("result"), L("tool") \o Dot \o L("result")>>,
     <<U("window") \o Underscore \o U("open"), L("window") \o Dot \o L("open")>>,
     <<U("window") \o Underscore \o U("close"), L("window") \o Dot \o L("close")>>,
     <<U("checkpoint"), L("checkpoint")>>,
     <<U("undo"), L("undo")>>}

InLegacyMap(upper) == \E kv \in LEGACY_EVENT_TYPE_MAP : kv[1] = upper
LegacyValue(upper) == (CHOOSE kv \in LEGACY_EVENT_TYPE_MAP : kv[1] = upper)[2]

\* upper.startswith(prefix) and upper.endswith(suffix)
HasPrefix(str, prefix) ==
    Len(str) >= Len(prefix) /\ SubSeq(str, 1, Len(prefix)) = prefix
HasSuffix(str, suffix) ==
    Len(str) >= Len(suffix) /\ SubSeq(str, Len(str) - Len(suffix) + 1, Len(str)) = suffix

\* raw.split("/", 1)[1]: what follows the first "/".
AfterFirstSlash(raw) ==
    LET i == CHOOSE i \in DOMAIN raw :
                 <<raw[i]>> = Slash /\ \A j \in 1..(i - 1) : <<raw[j]>> # Slash
    IN SubSeq(raw, i + 1, Len(raw))

\* normalize_event_type
NormalizeEventType(event_type) ==
    LET raw == Strip(event_type)
        upper == UpperCase(raw)
    IN IF raw = << >> THEN raw
       ELSE IF InLegacyMap(upper) THEN LegacyValue(upper)
       ELSE IF HasPrefix(upper, U("receipt") \o Slash)
       THEN L("receipt") \o Dot \o NormalizeSegments(AfterFirstSlash(raw))
       ELSE IF HasSuffix(upper, Underscore \o U("receipt")) /\ upper # U("receipt")
       THEN L("receipt") \o Dot
            \o NormalizeSegments(SubSeq(raw, 1, Len(raw) - Len(Underscore \o U("receipt"))))
       ELSE NormalizeSegments(raw)

\* The pieces of the event types tried.
Pieces ==
    {Word(w, c) : w \in {"file", "write", "conversation", "message", "receipt", "read"},
                  c \in {"upper", "lower"}}
    \cup {Word("receipt", "mixed")}
    \cup {Char(c) : c \in {"_", "/", ".", " "}}

EventTypes == UNION {[1..k -> Pieces] : k \in 0..MaxPieces}

\* A call of normalize_event_type about to be made.
InitNormalize ==
    /\ Dormant
    /\ verifierCall = << >>
    /\ sandboxOp = << >>
    /\ wsState = << >>
    /\ agentLoop = << >>
    /\ editCall = << >>
    /\ logCall = << >>
    /\ gitCall = << >>
    /\ normCall \in [event_type : EventTypes, once : {<< >>}, twice : {<< >>}]

normVars == << dormantVars, verifierCall, sandboxOp, wsState, agentLoop, editCall,
              logCall, gitCall >>

\* normalize_event_type(event_type)
CallNormalize ==
    /\ normCall # << >>
    /\ normCall.once = << >>
    /\ normCall' = [normCall EXCEPT !.once = <<NormalizeEventType(normCall.event_type)>>]
    /\ UNCHANGED normVars

\* normalize_event_type applied to what it returned.
CallNormalizeAgain ==
    /\ normCall # << >>
    /\ normCall.once # << >>
    /\ normCall.twice = << >>
    /\ normCall' = [normCall EXCEPT !.twice = <<NormalizeEventType(normCall.once[1])>>]
    /\ UNCHANGED normVars

NextNormalize ==
    \/ CallNormalize
    \/ CallNormalizeAgain

SpecNormalize == InitNormalize /\ [][NextNormalize]_vars

\* The legacy spellings of the canonical types file.write, message and
\* receipt.read, in any case and with blanks around them.
LegacyForms ==
    {<<U("file") \o Underscore \o U("write"), L("file") \o Dot \o L("write")>>,
     <<L("file") \o Underscore \o L("write"), L("file") \o Dot \o L("write")>>,
     <<U("file") \o Slash \o U("write"), L("file") \o Dot \o L("write")>>,
     <<U("conversation") \o Underscore \o U("message"), L("message")>>,
     <<U("message"), L("message")>>,
     <<U("read") \o Underscore \o U("receipt"), L("receipt") \o Dot \o L("read")>>,
     <<U("receipt") \o Slash \o U("read"), L("receipt") \o Dot \o L("read")>>,
     <<U("receipt") \o Underscore \o U("read"), L("receipt") \o Dot \o L("read")>>}

\* C31: normalizing what normalize_event_type returned returns it again, and
\* every legacy upper-case, underscore or slash form of a canonical type, with
\* or without blanks around it, is normalized to that type.
C31_NormalizeIdempotent ==
    /\ (normCall # << >> /\ normCall.twice # << >>) => normCall.twice = normCall.once
    /\ (normCall # << >> /\ normCall.once # << >>) =>
           \A form \in LegacyForms :
               Strip(normCall.event_type) = form[1] => normCall.once[1] = form[2]

\* READ_RECEIPT has been normalized to receipt.read, and that once more.
C31_Witness ==
    /\ normCall # << >>
    /\ normCall.event_type = U("read") \o Underscore \o U("receipt")
    /\ normCall.once = <<L("receipt") \o Dot \o L("read")>>
    /\ normCall.twice = normCall.once

\* The exception of the executor left run / run_async: the call raised
\* before it had taken the executor's outcome.
Propagated(r) == ctx[r].raised /\ ~ctx[r].executed

HyperthesisNoted(r) ==
    \E i \in 1..Len(events) :
        events[i].type = "note.hyperthesis" /\ events[i].run = r

\* C32: whenever the executor of a run ends by raising, the exception does
\* not leave run / run_async, a note.hyperthesis of the run records it, the
\* executor counts as failed and the run is marked failed.
C32_ExecutorExceptionsCaught ==
    \A r \in Orchestrated :
        ctx[r].threw =>
            /\ ~Propagated(r)
            /\ HyperthesisNoted(r)
            /\ ~ctx[r].success
            /\ runs[r].status = "failed"

\* Both callers have had an executor raise: a run of run() and a run of
\* run_async are over, failed, after their executors threw.
C32_Witness ==
    \A mode \in {"sync", "async"} :
        \E r \in Orchestrated :
            /\ ctx[r].mode = mode
            /\ ctx[r].threw
            /\ ctx[r].exited
            /\ runs[r].status = "failed"

\* ------------------------------------------- the events table and the stream

\* The rows appended in one behaviour.
MaxRows == 2

\* The paths in event payloads, in the order of Python's string comparison.
LogPathOrder == <<"a", "b">>
LogPaths == Range(LogPathOrder)

\* A payload: a dict with some of the keys path, from and to (None: the key
\* is absent), or a JSON value that is no dict.
Payload(path, from, to) == [dict |-> TRUE, path |-> path, from |-> from, to |-> to]
NoDict == [dict |-> FALSE, path |-> None, from |-> None, to |-> None]

Payloads ==
    {Payload(p, None, None) : p \in LogPaths}
    \cup {Payload(None, "a", "b"), Payload(None, "b", "a"), NoDict}

\* The event types callers pass to append: canonical and legacy spellings of
\* file events, and a note.
AppendedTypes ==
    {L("file") \o Dot \o L("write"), U("file") \o Underscore \o U("delete"),
     L("file") \o Dot \o L("move"), L("note") \o Dot \o L("status")}

\* `event_types or ["file.write", "file.delete", "file.move"]`
DefaultPathTypes ==
    {L("file") \o Dot \o L("write"), L("file") \o Dot \o L("delete"),
     L("file") \o Dot \o L("move")}

\* What becomes of the publish of one append: NATS is switched off or was not
\* importable, the client cannot connect, publish_event raises, or the stream
\* acknowledges with its next sequence number.
NatsOutcomes == {"disabled", "connect_fails", "publish_fails", "ack"}

\* A failed publish that is let out of append_async.
PublishFailureRaises(nats) == nats = "publish_fails"

\* `except Exception as e: print(...)` around nats.publish_event: nothing is
\* raised whatever the publish does.
PublishRaises(nats) == FALSE

\* SELECT MAX(seq) FROM events, or 0.
LatestSeq(rows) == IF rows = << >> THEN 0 ELSE rows[Len(rows)].seq

\* INSERT INTO events: seq is AUTOINCREMENT, nats_seq 0 stands for NULL.
InsertEvent(rows, nats_seq, type, payload) ==
    Append(rows, [seq |-> LatestSeq(rows) + 1, nats_seq |-> nats_seq, type |-> type,
                  payload |-> payload])

\* `WHERE seq >= ?`
SeqAtOrAfter(seq, since_seq) == seq >= since_seq

\* `WHERE seq > ?`
SeqAfter(seq, since_seq) == seq > since_seq

\* EventStore.get_event_paths_since with the default event types.
EventPathsSince(rows, since_seq) ==
    LET selected == {i \in DOMAIN rows :
                        SeqAfter(rows[i].seq, since_seq) /\ rows[i].type \in DefaultPathTypes}
        paths == UNION {IF rows[i].payload.dict
                        THEN {rows[i].payload.path, rows[i].payload.from,
                              rows[i].payload.to} \ {None}
                        ELSE {} : i \in selected}
        In(x) == x \in paths
    IN SelectSeq(LogPathOrder, In)

\* An empty events table, a stream that has published nothing, no run started.
InitLog ==
    /\ Dormant
    /\ verifierCall = << >>
    /\ sandboxOp = << >>
    /\ wsState = << >>
    /\ agentLoop = << >>
    /\ editCall = << >>
    /\ normCall = << >>
    /\ gitCall = << >>
    /\ logCall = [rows |-> << >>, published |-> 0, started |-> FALSE, start_seq |-> 0,
                  rows_at_start |-> 0, rows_at_query |-> 0, touched |-> << >>,
                  last |-> [fn |-> "", nats |-> "", returned |-> 0, raised |-> FALSE]]

logVars == << dormantVars, verifierCall, sandboxOp, wsState, agentLoop, editCall, normCall,
             gitCall >>

\* EventStore.append_async: the publish, then the row, written whatever the
\* publish did, with the stream's sequence number when there is one.
AppendAsync(event_type, payload, nats) ==
    /\ logCall # << >>
    /\ Len(logCall.rows) < MaxRows
    /\ LET acked == nats = "ack"
           raises == PublishRaises(nats)
       IN logCall' = [logCall EXCEPT
              !.published = IF acked THEN @ + 1 ELSE @,
              !.rows = IF raises THEN @
                       ELSE InsertEvent(@, IF acked THEN logCall.published + 1 ELSE 0,
                                        NormalizeEventType(event_type), payload),
              !.last = [fn |-> "append_async", nats |-> nats,
                        returned |-> IF raises THEN 0 ELSE LatestSeq(logCall.rows) + 1,
                        raised |-> raises]]
    /\ UNCHANGED logVars

\* EventStore.append: the row at once, without a stream sequence number; the
\* publish is left to a background task that swallows what it raises.
AppendSync(event_type, payload, nats) ==
    /\ logCall # << >>
    /\ Len(logCall.rows) < MaxRows
    /\ logCall' = [logCall EXCEPT
           !.published = IF nats = "ack" THEN @ + 1 ELSE @,
           !.rows = InsertEvent(@, 0, NormalizeEventType(event_type), payload),
           !.last = [fn |-> "append", nats |-> nats,
                     returned |-> LatestSeq(logCall.rows) + 1, raised |-> FALSE]]
    /\ UNCHANGED logVars

\* run_async at the start of a run: start_seq = self.store.get_latest_seq()
ReadStartSeq ==
    /\ logCall # << >>
    /\ ~logCall.started
    /\ logCall' = [logCall EXCEPT !.started = TRUE,
                                  !.start_seq = LatestSeq(logCall.rows),
                                  !.rows_at_start = Len(logCall.rows)]
    /\ UNCHANGED logVars

\* run_async after the executor: touched_paths = get_event_paths_since(start_seq)
ReadTouchedPaths ==
    /\ logCall # << >>
    /\ logCall.started
    /\ logCall.touched = << >>
    /\ logCall' = [logCall EXCEPT
           !.touched = <<EventPathsSince(logCall.rows, logCall.start_seq)>>,
           !.rows_at_query = Len(logCall.rows)]
    /\ UNCHANGED logVars

NextLog ==
    \/ \E t \in AppendedTypes, p \in Payloads, n \in NatsOutcomes : AppendAsync(t, p, n)
    \/ \E t \in AppendedTypes, p \in Payloads, n \in NatsOutcomes : AppendSync(t, p, n)
    \/ ReadStartSeq
    \/ ReadTouchedPaths

SpecLog == InitLog /\ [][NextLog]_vars

\* The paths a row names, if it is a file event with a dict payload.
FilePathsOf(row) ==
    IF row.type \in DefaultPathTypes /\ row.payload.dict
    THEN {row.payload.path, row.payload.from, row.payload.to} \ {None}
    ELSE {}

Rank(p) == CHOOSE i \in DOMAIN LogPathOrder : LogPathOrder[i] = p

\* C33: the touched paths of a run are in strictly ascending order and are
\* exactly the path, from and to values of the file.write, file.delete and
\* file.move events that were in the table when it was queried and have a seq
\* above the start_seq read at the run's start, which are the events appended
\* between the two readings.
C33_TouchedPathsSinceStart ==
    (logCall # << >> /\ logCall.touched # << >>) =>
        LET touched == logCall.touched[1]
            queried == 1 .. logCall.rows_at_query
        IN /\ \A i, j \in DOMAIN touched : i < j => Rank(touched[i]) < Rank(touched[j])
           /\ \A p \in LogPaths :
                  p \in Range(touched) <=>
                      \E k \in queried :
                          /\ logCall.rows[k].seq > logCall.start_seq
                          /\ p \in FilePathsOf(logCall.rows[k])
           /\ \A k \in queried :
                  logCall.rows[k].seq > logCall.start_seq <=> k > logCall.rows_at_start

\* A file event on "b" before the run started is left out, and a move from
\* "b" to "a" after it gives both paths, sorted.
C33_Witness ==
    /\ logCall # << >>
    /\ logCall.rows_at_start = 1
    /\ logCall.rows[1].type \in DefaultPathTypes
    /\ logCall.rows[1].payload = Payload("b", None, None)
    /\ Len(logCall.rows) = 2
    /\ logCall.rows[2].payload = Payload(None, "b", "a")
    /\ logCall.touched = << <<"a", "b">> >>

\* The step is an append whose publish did not reach the stream.
UnpublishedAppend ==
    /\ logCall # << >>
    /\ logCall'.last # logCall.last \/ logCall'.rows # logCall.rows
    /\ logCall'.last.fn \in {"append", "append_async"}
    /\ logCall'.last.nats \in {"disabled", "connect_fails", "publish_fails"}
    /\ logCall'.touched = logCall.touched
    /\ logCall'.started = logCall.started

\* C34: an append whose publish fails, or that finds no stream, raises
\* nothing, adds exactly one row with the next seq and no stream sequence
\* number, and returns that seq.
C34_AppendSurvivesPublishFailure ==
    [][UnpublishedAppend =>
          /\ ~logCall'.last.raised
          /\ Len(logCall'.rows) = Len(logCall.rows) + 1
          /\ SubSeq(logCall'.rows, 1, Len(logCall.rows)) = logCall.rows
          /\ logCall'.rows[Len(logCall'.rows)].seq = LatestSeq(logCall.rows) + 1
          /\ logCall'.rows[Len(logCall'.rows)].nats_seq = 0
          /\ logCall'.last.returned = LatestSeq(logCall.rows) + 1]_vars

\* An append_async whose publish raised came after one the stream
\* acknowledged: the second row has seq 2 and no stream sequence number.
C34_Witness ==
    /\ logCall # << >>
    /\ Len(logCall.rows) = 2
    /\ logCall.rows[1].nats_seq = 1
    /\ logCall.last = [fn |-> "append_async", nats |-> "publish_fails", returned |-> 2,
                       raised |-> FALSE]
    /\ logCall.rows[2].nats_seq = 0

\* ------------------------------------------------------ chains of transitions

\* The transitions made one after the other in one behaviour.
MaxChain == 3

\* The signals transition_mood reads that a caller sets one at a time.
Signals ==
    {"crash_detected", "suspected_reward_hack", "preference_missing", "ambiguity_blocking",
     "user_idk", "verifiers_regress", "hyperthesis_high", "verified_and_bounded",
     "mitigations_installed"}

\* MoodInputs(<signal>=True)
Only(signal) == [DefaultInputs EXCEPT ![signal] = TRUE]

\* A mood to start from and no transition made yet.
InitMoodChain ==
    /\ AtRest
    /\ EmptyStore
    /\ planCall = NoPlanCall
    /\ NoComponents
    /\ moodCall \in {[start |-> c, steps |-> << >>] : c \in Moods}

\* The mood the next transition starts from: the result of the last one.
MoodNow ==
    IF moodCall.steps = << >> THEN moodCall.start
    ELSE moodCall.steps[Len(moodCall.steps)].result

\* mood = transition_mood(mood, MoodInputs(<signal>=True))
ChainTransition(signal) ==
    /\ Len(moodCall.steps) < MaxChain
    /\ moodCall' = [moodCall EXCEPT
           !.steps = Append(@, [signal |-> signal, from |-> MoodNow,
                                result |-> TransitionMood(MoodNow, Only(signal))])]
    /\ UNCHANGED << atRestVars, emptyStoreVars, planCall, componentVars >>

NextMoodChain == \E signal \in Signals : ChainTransition(signal)

SpecMoodChain == InitMoodChain /\ [][NextMoodChain]_vars

\* The signals of the transitions made so far, and their results.
ChainSignals == [k \in DOMAIN moodCall.steps |-> moodCall.steps[k].signal]
ChainResults == [k \in DOMAIN moodCall.steps |-> moodCall.steps[k].result]

\* C35 as stated: starting from CALM and feeding each result to the next
\* call, user_idk gives CURIOUS, then verifiers_regress gives SKEPTICAL, then
\* verified_and_bounded gives CALM.
C35_Original ==
    (moodCall.start = "CALM"
        /\ ChainSignals = <<"user_idk", "verifiers_regress", "verified_and_bounded">>)
    => ChainResults = <<"CURIOUS", "SKEPTICAL", "CALM">>

\* C35, amended: each of the three transitions holds from the mood its rule
\* belongs to (user_idk and verifiers_regress from CALM, verified_and_bounded
\* from SKEPTICAL), and CURIOUS has no rule: a chain that reached CURIOUS stays
\* there under verifiers_regress and under verified_and_bounded.
C35_TransitionsPerMood ==
    \A k \in DOMAIN moodCall.steps :
        LET step == moodCall.steps[k]
        IN /\ (step.from = "CALM" /\ step.signal = "user_idk") => step.result = "CURIOUS"
           /\ (step.from = "CALM" /\ step.signal = "verifiers_regress")
                  => step.result = "SKEPTICAL"
           /\ (step.from = "SKEPTICAL" /\ step.signal = "verified_and_bounded")
                  => step.result = "CALM"
           /\ (step.from = "CURIOUS"
                   /\ step.signal \in {"verifiers_regress", "verified_and_bounded"})
                  => step.result = "CURIOUS"

\* The chain of the claim was run and stayed at CURIOUS.
C35_Witness ==
    /\ moodCall.start = "CALM"
    /\ ChainSignals = <<"user_idk", "verifiers_regress", "verified_and_bounded">>
    /\ ChainResults = <<"CURIOUS", "CURIOUS", "CURIOUS">>

\* ------------------------------------------------- what the planner selects

\* The first call of the planner has returned: its arguments and its plan.
Planned == planCall.result # << >>
ThePlan == planCall.result[1]
CatalogOfCall == planCall.args.config.verifiers
CatalogIds == {CatalogOfCall[i].id : i \in DOMAIN CatalogOfCall}
RequiredOfCall == Range(planCall.args.required_verifiers)
MoodKeyOfCall == Upper(IF planCall.args.mood = None THEN "" ELSE planCall.args.mood)
DefaultsOfCall ==
    IF MoodKeyOfCall \in DOMAIN planCall.args.config.mood_defaults
    THEN Range(planCall.args.config.mood_defaults[MoodKeyOfCall])
    ELSE {}

IdRank(id) == CHOOSE i \in DOMAIN IdOrder : IdOrder[i] = id

\* C36: every required id is in verifier_ids and not in unknown_required if
\* the catalog has it, and in unknown_required and not in verifier_ids if
\* not; verifier_ids holds catalog ids only, in strictly ascending order.
C36_RequiredIdsPartitioned ==
    Planned =>
        /\ \A id \in RequiredOfCall :
               IF id \in CatalogIds
               THEN /\ id \in Range(ThePlan.verifier_ids)
                    /\ id \notin Range(ThePlan.unknown_required)
               ELSE /\ id \in Range(ThePlan.unknown_required)
                    /\ id \notin Range(ThePlan.verifier_ids)
        /\ Range(ThePlan.verifier_ids) \subseteq CatalogIds
        /\ \A i, j \in DOMAIN ThePlan.verifier_ids :
               i < j => IdRank(ThePlan.verifier_ids[i]) < IdRank(ThePlan.verifier_ids[j])

\* A known and an unknown id were required, the known one twice over by the
\* mood defaults, and a second catalog verifier came in by scope.
C36_Witness ==
    /\ Planned
    /\ planCall.args.required_verifiers = <<"V9", "V2">>
    /\ planCall.args.mood = "calm"
    /\ DefaultsOfCall = {"V2", "V9"}
    /\ ThePlan.verifier_ids = <<"V1", "V2">>
    /\ ThePlan.unknown_required = <<"V9">>

\* The catalog verifier declares the mood of the call, or no mood at all.
MoodAdmits(v) ==
    v.moods = << >> \/ MoodKeyOfCall \in {Upper(v.moods[k]) : k \in DOMAIN v.moods}

\* C37: a catalog verifier that is neither required nor a default of the mood
\* is in verifier_ids exactly if its moods admit the mood of the call and a
\* touched path matches one of its scopes; a null mood is among no verifier's
\* declared moods.
C37_ScopeSelection ==
    Planned =>
        \A i \in DOMAIN CatalogOfCall :
            LET v == CatalogOfCall[i]
            IN (v.id \notin RequiredOfCall \cup DefaultsOfCall) =>
                   (v.id \in Range(ThePlan.verifier_ids) <=>
                       /\ MoodAdmits(v)
                       /\ MatchesScopeList(planCall.args.touched_paths, v.scopes))

\* ---------------------------------------------------- tool calls of the loops

\* The LLM calls of one prompt followed here.
MaxToolTurns == 3

ToolLoops == {"RalphLoop", "AgentHarness", "AssociateAgent"}

\* What a reply asks for and what becomes of it: no tool_use block, or one
\* with an input, whose handler returns a result, returns an {error} dict or
\* raises; and the stop reason of the reply.
ToolInputs == {"in1", "in2"}
HandlerOutcomes == {"returns", "returns_error", "raises"}
ToolReplies ==
    [tool_use : {FALSE}, input : {""}, handler : {""}, stop_reason : {"end_turn"}]
    \cup [tool_use : {TRUE}, input : ToolInputs, handler : HandlerOutcomes,
          stop_reason : {"end_turn", "tool_use"}]

\* The result dict of a handler that returned, and {"error": str(e)}.
HandlerResult(reply) ==
    IF reply.handler = "returns" THEN [ok |-> reply.input] ELSE [error |-> reply.input]

\* EventStore.log_tool_call: the tool.call event with the input and result.
ToolCallEvent(tool_input, result) ==
    [type |-> "tool.call", tool_input |-> tool_input, tool_result |-> result]

\* A prompt or task handed to one of the loops: no LLM call made yet.
InitTools ==
    /\ Dormant
    /\ verifierCall = << >>
    /\ sandboxOp = << >>
    /\ wsState = << >>
    /\ editCall = << >>
    /\ normCall = << >>
    /\ logCall = << >>
    /\ gitCall = << >>
    /\ agentLoop \in {[loop |-> l, calls |-> 0, uses |-> << >>, tool_events |-> << >>,
                       fed_back |-> << >>, running |-> TRUE, outcome |-> ""] :
                          l \in ToolLoops}

\* One pass of `while True` in RalphLoop.process: the handler is called inside
\* try/except, the tool call is logged, the result goes into messages.
RalphProcess(reply) ==
    /\ agentLoop.loop = "RalphLoop"
    /\ agentLoop.running
    /\ agentLoop.calls < MaxToolTurns
    /\ LET result == HandlerResult(reply)
           stops == ~reply.tool_use \/ reply.stop_reason = "end_turn"
       IN agentLoop' = [agentLoop EXCEPT
              !.calls = @ + 1,
              !.uses = IF reply.tool_use THEN Append(@, reply) ELSE @,
              !.tool_events = IF reply.tool_use
                              THEN Append(@, ToolCallEvent(reply.input, result)) ELSE @,
              !.fed_back = IF reply.tool_use THEN Append(@, result) ELSE @,
              !.running = ~stops,
              !.outcome = IF stops THEN "done" ELSE ""]
    /\ UNCHANGED agentVars

\* One pass of `while True` in AgentHarness.process: execute_tool is awaited
\* bare, so what it raises reaches the `except Exception` around the loop,
\* which yields an error frame; nothing is logged for that tool_use.
HarnessProcess(reply) ==
    /\ agentLoop.loop = "AgentHarness"
    /\ agentLoop.running
    /\ agentLoop.calls < MaxToolTurns
    /\ LET result == HandlerResult(reply)
           raised == reply.tool_use /\ reply.handler = "raises"
           logged == reply.tool_use /\ ~raised
           stops == raised \/ ~reply.tool_use \/ reply.stop_reason = "end_turn"
       IN agentLoop' = [agentLoop EXCEPT
              !.calls = @ + 1,
              !.uses = IF reply.tool_use THEN Append(@, reply) ELSE @,
              !.tool_events = IF logged
                              THEN Append(@, ToolCallEvent(reply.input, result)) ELSE @,
              !.fed_back = IF logged THEN Append(@, result) ELSE @,
              !.running = ~stops,
              !.outcome = IF raised THEN "error" ELSE IF stops THEN "done" ELSE ""]
    /\ UNCHANGED agentVars

\* One pass of the loop of AssociateAgent.run for a tool other than
\* submit_result: execute_tool is awaited bare and run() has no except clause;
\* the result goes into messages and the store is not written. A reply
\* without tool_use only uses up a turn.
AssociateRun(reply) ==
    /\ agentLoop.loop = "AssociateAgent"
    /\ agentLoop.running
    /\ agentLoop.calls < MaxToolTurns
    /\ LET result == HandlerResult(reply)
           raised == reply.tool_use /\ reply.handler = "raises"
           fed == reply.tool_use /\ ~raised
       IN agentLoop' = [agentLoop EXCEPT
              !.calls = @ + 1,
              !.uses = IF reply.tool_use THEN Append(@, reply) ELSE @,
              !.fed_back = IF fed THEN Append(@, result) ELSE @,
              !.running = ~raised,
              !.outcome = IF raised THEN "raised" ELSE ""]
    /\ UNCHANGED agentVars

NextTools ==
    \/ \E reply \in ToolReplies : RalphProcess(reply)
    \/ \E reply \in ToolReplies : HarnessProcess(reply)
    \/ \E reply \in ToolReplies : AssociateRun(reply)

SpecTools == InitTools /\ [][NextTools]_vars

\* C38: between two LLM calls, every tool_use made so far has its one
\* tool.call event, in order, with the input and the result of that tool_use,
\* an {error} result when the handler raised or returned one; that result was
\* given back to the model, and no handler failure ended the loop.
C38_EveryToolUseLogged ==
    agentLoop # << >> =>
        /\ Len(agentLoop.tool_events) = Len(agentLoop.uses)
        /\ Len(agentLoop.fed_back) = Len(agentLoop.uses)
        /\ \A k \in DOMAIN agentLoop.uses :
               /\ k \in DOMAIN agentLoop.tool_events
               /\ k \in DOMAIN agentLoop.fed_back
               /\ agentLoop.tool_events[k] =
                      ToolCallEvent(agentLoop.uses[k].input, HandlerResult(agentLoop.uses[k]))
               /\ agentLoop.fed_back[k] = HandlerResult(agentLoop.uses[k])
        /\ agentLoop.outcome \notin {"error", "raised"}

\* ------------------------------------------------------- git_revert by itself

\* The commits of the repository and the calls of git_revert in one behaviour.
MaxCommits == 3
MaxReverts == 2

\* What the git commands of one git_revert do: all succeed, `git branch`
\* fails (the name of this second is taken), or `git reset --hard` fails.
RevertCallOutcomes == RevertOutcomes \cup {"reset_failed"}

\* The sha argument: a commit that exists or one that does not, spelled in
\* full or abbreviated to fewer than 7 characters.
Shas == [commit : 1..(MaxCommits + 1), abbreviated : BOOLEAN]

\* A repository with its first commit, a clean tree, no backup branch.
InitRevert ==
    /\ Dormant
    /\ verifierCall = << >>
    /\ sandboxOp = << >>
    /\ wsState = << >>
    /\ agentLoop = << >>
    /\ editCall = << >>
    /\ normCall = << >>
    /\ logCall = << >>
    /\ gitCall = [commits |-> <<[parent |-> 0, paths |-> {"a"}]>>, head |-> 1, dirty |-> {},
                  backups |-> {}, reverts |-> 0, last |-> << >>]

revertVars == << dormantVars, verifierCall, sandboxOp, wsState, agentLoop, editCall, normCall,
                 logCall >>

\* A file of the working tree is written.
WorkTreeWrite(path) ==
    /\ gitCall # << >>
    /\ path \notin gitCall.dirty
    /\ gitCall' = [gitCall EXCEPT !.dirty = @ \cup {path}, !.last = << >>]
    /\ UNCHANGED revertVars

\* git add and git commit of what the working tree holds.
WorkTreeCommit ==
    /\ gitCall # << >>
    /\ gitCall.dirty # {}
    /\ Len(gitCall.commits) < MaxCommits
    /\ LET made == Checkpoint(gitCall.commits, gitCall.head, gitCall.dirty, "ok")
       IN gitCall' = [gitCall EXCEPT !.commits = made.commits, !.head = made.head,
                                     !.dirty = made.dirty, !.last = << >>]
    /\ UNCHANGED revertVars

\* git_revert(sha, dry_run): is_reachable_commit turns down a sha of fewer
\* than 7 characters before it asks git.
CallGitRevert(sha, dry_run, outcome) ==
    /\ gitCall # << >>
    /\ gitCall.reverts < MaxReverts
    /\ LET done == IF sha.abbreviated
                   THEN [success |-> FALSE, head |-> gitCall.head, dirty |-> gitCall.dirty,
                         backups |-> gitCall.backups]
                   ELSE GitRevert(gitCall.commits, gitCall.head, gitCall.dirty,
                                  gitCall.backups, sha.commit, dry_run, outcome)
       IN gitCall' = [gitCall EXCEPT
              !.head = done.head, !.dirty = done.dirty, !.backups = done.backups,
              !.reverts = @ + 1,
              !.last = <<[sha |-> sha, dry_run |-> dry_run, success |-> done.success,
                          head |-> gitCall.head, dirty |-> gitCall.dirty,
                          backups |-> gitCall.backups]>>]
    /\ UNCHANGED revertVars

NextRevert ==
    \/ \E path \in LogPaths : WorkTreeWrite(path)
    \/ WorkTreeCommit
    \/ \E sha \in Shas, dry_run \in BOOLEAN, outcome \in RevertCallOutcomes :
           CallGitRevert(sha, dry_run, outcome)

SpecRevert == InitRevert /\ [][NextRevert]_vars

\* git_revert has just returned; what it was called with and on.
Reverted == gitCall # << >> /\ gitCall.last # << >>
RevertCall == gitCall.last[1]
ShaIsAncestor == /\ RevertCall.sha.commit \in 1..Len(gitCall.commits)
                 /\ IsAncestor(gitCall.commits, RevertCall.sha.commit, RevertCall.head)

\* C39 as stated: a sha that is no ancestor of HEAD makes the call fail and
\* leaves HEAD and the branches; for an ancestor, HEAD moves only with a
\* backup branch at the old HEAD, a dry run leaves HEAD and the working tree,
\* and a call that is no dry run ends with HEAD at sha.
C39_Original ==
    Reverted =>
        IF ~ShaIsAncestor
        THEN /\ ~RevertCall.success
             /\ gitCall.head = RevertCall.head
             /\ gitCall.backups = RevertCall.backups
        ELSE /\ gitCall.head # RevertCall.head => RevertCall.head \in gitCall.backups
             /\ RevertCall.dry_run =>
                    gitCall.head = RevertCall.head /\ gitCall.dirty = RevertCall.dirty
             /\ ~RevertCall.dry_run => gitCall.head = RevertCall.sha.commit

\* C39, amended: a sha that is no ancestor of HEAD, or has fewer than 7
\* characters, makes the call fail and leaves HEAD, the branches and the
\* working tree; HEAD never moves without a backup branch at the old HEAD; a
\* dry run leaves HEAD and the working tree; a call that is no dry run and
\* returns success ends with HEAD at sha, and one that fails leaves HEAD and
\* the working tree where they were.
C39_RevertBackedUp ==
    Reverted =>
        /\ (~ShaIsAncestor \/ RevertCall.sha.abbreviated) =>
               /\ ~RevertCall.success
               /\ gitCall.head = RevertCall.head
               /\ gitCall.backups = RevertCall.backups
               /\ gitCall.dirty = RevertCall.dirty
        /\ gitCall.head # RevertCall.head => RevertCall.head \in gitCall.backups
        /\ RevertCall.dry_run =>
               gitCall.head = RevertCall.head /\ gitCall.dirty = RevertCall.dirty
        /\ (~RevertCall.dry_run /\ RevertCall.success) =>
               /\ gitCall.head = RevertCall.sha.commit
               /\ RevertCall.head \in gitCall.backups
        /\ ~RevertCall.success =>
               gitCall.head = RevertCall.head /\ gitCall.dirty = RevertCall.dirty

\* A revert from the second commit to the first moved HEAD, with the backup
\* branch at the second commit, after a call that had failed and left no
\* branch.
C39_Witness ==
    /\ Reverted
    /\ gitCall.reverts = 2
    /\ RevertCall.head = 2
    /\ RevertCall.sha = [commit |-> 1, abbreviated |-> FALSE]
    /\ ~RevertCall.dry_run
    /\ RevertCall.success
    /\ RevertCall.backups = {}
    /\ gitCall.head = 1
    /\ gitCall.backups = {2}

\* ------------------------------------------- failed runs and later promotions

\* The paths the executor of run r wrote.
WrittenBy(r) ==
    {events[i].path : i \in {j \in DOMAIN events :
                                events[j].type = "file.write" /\ events[j].origin = r}}

\* Run r ended verified and its promotion made a commit and recorded it as
\* last_good_checkpoint.
PromotedCommit(r) ==
    /\ runs[r].status = "verified"
    /\ ctx[r].promoted
    /\ ctx[r].checkpoint.success
    /\ ctx[r].checkpoint.created
    /\ ctx[r].checkpoint.commit_sha # 0

\* C40: when a session's run ended failed and a later run of that session
\* ended verified and recorded the commit of its promotion as
\* last_good_checkpoint, that commit holds no path that the failed run wrote
\* and no run that did not fail wrote.
C40_FailedChangesNeverPromoted ==
    \A r1 \in Orchestrated : \A r2 \in Orchestrated :
        (/\ r1 < r2
         /\ ctx[r1].session = ctx[r2].session
         /\ runs[r1].status = "failed"
         /\ PromotedCommit(r2))
        => \A path \in WrittenBy(r1) :
               (\A r \in Orchestrated : runs[r].status # "failed" => path \notin WrittenBy(r))
               => path \notin commits[ctx[r2].checkpoint.commit_sha].paths

====
